---- MODULE Spec2Model ----
(***************************************************************************)
(* Model of the OpenWebClipper template engine (TemplateEngine,            *)
(* FilterProcessor, VariableProcessor) and of the Clipper API built on it. *)
(*                                                                         *)
(* Text is a sequence of one-character strings, so that scanning,          *)
(* trimming, slicing and splitting are computed the way the code computes  *)
(* them.  A JavaScript value is a record [t |-> tag, v |-> payload]:       *)
(*   "str"   payload = text            "num"  payload = natural number     *)
(*   "bool"  payload = BOOLEAN         "null" / "undef"  payload = 0       *)
(*   "arr"   payload = sequence of values                                  *)
(*   "obj"   payload = sequence of entries [k |-> text, v |-> value],      *)
(*           in insertion order, keys unique                               *)
(*   "fn"    payload = [name |-> text, arity |-> number] (a native         *)
(*           function reached through the prototype chain)                 *)
(***************************************************************************)
EXTENDS Integers, Sequences, FiniteSets, TLC

(* ---------------------------------------------------------------------- *)
(* Bounds                                                                  *)
(* ---------------------------------------------------------------------- *)
\* longest filter chain of the generated placeholders
MaxChain == 2
\* longest unstructured template
MaxPlainLen == 5
\* longest dotted path of the generated placeholders
MaxPathLen == 3
\* most registerFilter calls made before a render
MaxRegs == 1
\* the longest property path written after schema:
MaxSchemaPathLen == 2
\* the longest text between the quotes of a prompt literal
MaxPromptLen == 3
\* the longest placeholder body and argument text handed to the parsers
MaxBodyLen == 4
\* the most segments of a path with index and wildcard suffixes
MaxIndexPathLen == 2

(* ---------------------------------------------------------------------- *)
(* Text primitives (String.prototype)                                      *)
(* ---------------------------------------------------------------------- *)
LowerLetters == <<"a","b","c","d","e","f","g","h","i","j","k","l","m",
                  "n","o","p","q","r","s","t","u","v","w","x","y","z">>
UpperLetters == <<"A","B","C","D","E","F","G","H","I","J","K","L","M",
                  "N","O","P","Q","R","S","T","U","V","W","X","Y","Z">>
DigitChars == <<"0","1","2","3","4","5","6","7","8","9">>

Range(s) == {s[i] : i \in DOMAIN s}

IsSpace(c) == c \in {" ", "\n", "\t"}
IsDigit(c) == c \in Range(DigitChars)
IsWordChar(c) == c \in Range(LowerLetters) \cup Range(UpperLetters)
                         \cup Range(DigitChars) \cup {"_"}

Min(a, b) == IF a < b THEN a ELSE b
Max(a, b) == IF a > b THEN a ELSE b

\* s.slice(from) and s.slice(from, to) with zero-based, possibly negative indices
SliceIdx(s, k) == IF k < 0 THEN Max(Len(s) + k, 0) ELSE Min(k, Len(s))
Slice(s, from, to) ==
  LET a == SliceIdx(s, from)
      b == SliceIdx(s, to)
  IN IF a >= b THEN <<>> ELSE SubSeq(s, a + 1, b)
SliceFrom(s, from) == Slice(s, from, Len(s))

StartsWith(s, p) == Len(s) >= Len(p) /\ SubSeq(s, 1, Len(p)) = p
EndsWith(s, p) == Len(s) >= Len(p) /\ SubSeq(s, Len(s) - Len(p) + 1, Len(s)) = p

\* s.indexOf(c): zero-based index of the first occurrence of character c, -1 if none
IndexOf(s, c) ==
  IF \E i \in DOMAIN s : s[i] = c
  THEN (CHOOSE i \in DOMAIN s : s[i] = c /\ \A j \in 1..(i - 1) : s[j] # c) - 1
  ELSE -1

RECURSIVE TrimStart(_)
TrimStart(s) == IF s # <<>> /\ IsSpace(Head(s)) THEN TrimStart(Tail(s)) ELSE s
RECURSIVE TrimEnd(_)
TrimEnd(s) == IF s # <<>> /\ IsSpace(s[Len(s)]) THEN TrimEnd(SubSeq(s, 1, Len(s) - 1)) ELSE s
Trim(s) == TrimEnd(TrimStart(s))

ToUpperChar(c) ==
  IF \E i \in DOMAIN LowerLetters : LowerLetters[i] = c
  THEN UpperLetters[CHOOSE i \in DOMAIN LowerLetters : LowerLetters[i] = c]
  ELSE c
ToLowerChar(c) ==
  IF \E i \in DOMAIN UpperLetters : UpperLetters[i] = c
  THEN LowerLetters[CHOOSE i \in DOMAIN UpperLetters : UpperLetters[i] = c]
  ELSE c
ToUpperCase(s) == [i \in DOMAIN s |-> ToUpperChar(s[i])]
ToLowerCase(s) == [i \in DOMAIN s |-> ToLowerChar(s[i])]

RECURSIVE Concat(_)
Concat(ss) == IF ss = <<>> THEN <<>> ELSE Head(ss) \o Concat(Tail(ss))

\* Array.prototype.join on texts
RECURSIVE JoinText(_, _)
JoinText(ss, sep) ==
  IF ss = <<>> THEN <<>>
  ELSE IF Len(ss) = 1 THEN ss[1]
  ELSE ss[1] \o sep \o JoinText(Tail(ss), sep)

\* s.split(c) for a one-character separator
RECURSIVE SplitChar(_, _)
SplitChar(s, c) ==
  LET k == IndexOf(s, c)
  IN IF k = -1 THEN <<s>>
     ELSE <<SubSeq(s, 1, k)>> \o SplitChar(SubSeq(s, k + 2, Len(s)), c)

\* String(n) for a natural number
RECURSIVE NumToText(_)
NumToText(n) == IF n < 10 THEN <<DigitChars[n + 1]>>
                ELSE NumToText(n \div 10) \o <<DigitChars[(n % 10) + 1]>>

DigitVal(c) == (CHOOSE i \in DOMAIN DigitChars : DigitChars[i] = c) - 1
\* parseInt(s, 10) for a text of decimal digits
RECURSIVE ParseInt(_)
ParseInt(s) == IF s = <<>> THEN 0
               ELSE ParseInt(SubSeq(s, 1, Len(s) - 1)) * 10 + DigitVal(s[Len(s)])

(* ---------------------------------------------------------------------- *)
(* JavaScript values                                                       *)
(* ---------------------------------------------------------------------- *)
Str(s) == [t |-> "str", v |-> s]
Num(n) == [t |-> "num", v |-> n]
Bool(b) == [t |-> "bool", v |-> b]
Null == [t |-> "null", v |-> 0]
Undef == [t |-> "undef", v |-> 0]
Arr(xs) == [t |-> "arr", v |-> xs]
Obj(es) == [t |-> "obj", v |-> es]
Fn(name, arity) == [t |-> "fn", v |-> [name |-> name, arity |-> arity]]
Entry(k, x) == [k |-> k, v |-> x]
EmptyStr == Str(<<>>)

IsNullish(x) == x.t \in {"null", "undef"}
\* x ?? ''
OrEmpty(x) == IF IsNullish(x) THEN EmptyStr ELSE x
\* ToBoolean(x)
Truthy(x) ==
  CASE x.t = "str" -> x.v # <<>>
    [] x.t = "num" -> x.v # 0
    [] x.t = "bool" -> x.v
    [] x.t \in {"null", "undef"} -> FALSE
    [] OTHER -> TRUE

\* outcome of an evaluation that may throw
Ok(x) == [thrown |-> FALSE, val |-> x, err |-> ""]
Throw(msg) == [thrown |-> TRUE, val |-> Undef, err |-> msg]

ConstructorName(x) ==
  CASE x.t = "obj" -> <<"O","b","j","e","c","t">>
    [] x.t = "arr" -> <<"A","r","r","a","y">>
    [] x.t = "str" -> <<"S","t","r","i","n","g">>
    [] x.t = "num" -> <<"N","u","m","b","e","r">>
    [] x.t = "bool" -> <<"B","o","o","l","e","a","n">>
    [] OTHER -> <<"F","u","n","c","t","i","o","n">>

\* properties every non-null value inherits through its prototype chain
\* (the ones the model's paths name; the real prototypes carry more)
InheritedGet(x, key) ==
  CASE key = <<"c","o","n","s","t","r","u","c","t","o","r">> -> Fn(ConstructorName(x), 1)
    [] key = <<"t","o","S","t","r","i","n","g">> -> Fn(<<"t","o","S","t","r","i","n","g">>, 0)
    [] key = <<"v","a","l","u","e","O","f">> -> Fn(<<"v","a","l","u","e","O","f">>, 0)
    [] key = <<"h","a","s","O","w","n","P","r","o","p","e","r","t","y">> -> Fn(<<"h","a","s","O","w","n","P","r","o","p","e","r","t","y">>, 1)
    [] OTHER -> Undef

IsIndexKey(key) ==
  /\ key # <<>>
  /\ \A i \in DOMAIN key : IsDigit(key[i])
  /\ (Len(key) = 1 \/ key[1] # "0")

HasOwn(es, key) == \E i \in DOMAIN es : es[i].k = key
OwnGet(es, key) == es[CHOOSE i \in DOMAIN es : es[i].k = key].v

\* x[key] for a value x that is neither null nor undefined
Get(x, key) ==
  CASE x.t = "obj" ->
         IF HasOwn(x.v, key) THEN OwnGet(x.v, key) ELSE InheritedGet(x, key)
    [] x.t = "arr" ->
         IF key = <<"l","e","n","g","t","h">> THEN Num(Len(x.v))
         ELSE IF IsIndexKey(key)
              THEN (IF ParseInt(key) < Len(x.v) THEN x.v[ParseInt(key) + 1] ELSE Undef)
              ELSE InheritedGet(x, key)
    [] x.t = "str" ->
         IF key = <<"l","e","n","g","t","h">> THEN Num(Len(x.v))
         ELSE IF IsIndexKey(key)
              THEN (IF ParseInt(key) < Len(x.v) THEN Str(<<x.v[ParseInt(key) + 1]>>) ELSE Undef)
              ELSE InheritedGet(x, key)
    [] x.t = "fn" ->
         IF key = <<"n","a","m","e">> THEN Str(x.v.name)
         ELSE IF key = <<"l","e","n","g","t","h">> THEN Num(x.v.arity)
         ELSE InheritedGet(x, key)
    [] OTHER -> InheritedGet(x, key)

\* Object.values(x)
ObjectValues(x) ==
  CASE x.t = "obj" -> [i \in DOMAIN x.v |-> x.v[i].v]
    [] x.t = "arr" -> x.v
    [] x.t = "str" -> [i \in DOMAIN x.v |-> Str(<<x.v[i]>>)]
    [] OTHER -> <<>>

(* ---------------------------------------------------------------------- *)
(* VariableProcessor                                                       *)
(* ---------------------------------------------------------------------- *)
\* part.match(/^(\w+)\[(\d+|\*)\]$/)
IndexMatch(part) ==
  LET b == IndexOf(part, "[")
      key == SubSeq(part, 1, b)
      idx == SubSeq(part, b + 2, Len(part) - 1)
  IN IF /\ b >= 1
        /\ part[Len(part)] = "]"
        /\ \A i \in DOMAIN key : IsWordChar(key[i])
        /\ idx # <<>>
        /\ (idx = <<"*">> \/ \A i \in DOMAIN idx : IsDigit(idx[i]))
     THEN [matched |-> TRUE, key |-> key, index |-> idx]
     ELSE [matched |-> FALSE, key |-> <<>>, index |-> <<>>]

\* a traversal in which key[*] goes on with the remaining segments
RECURSIVE ResolveSteps_wildcardContinues(_, _)
ResolveSteps_wildcardContinues(parts, current) ==
  IF parts = <<>> THEN OrEmpty(current)
  ELSE IF IsNullish(current) THEN EmptyStr
  ELSE LET m == IndexMatch(Head(parts))
       IN IF m.matched
          THEN LET c == Get(current, m.key)
               IN IF c.t = "arr" /\ m.index # <<"*">>
                  THEN ResolveSteps_wildcardContinues(Tail(parts),
                         IF ParseInt(m.index) < Len(c.v)
                         THEN c.v[ParseInt(m.index) + 1] ELSE Undef)
                  ELSE ResolveSteps_wildcardContinues(Tail(parts), c)
          ELSE ResolveSteps_wildcardContinues(Tail(parts), Get(current, Head(parts)))

RECURSIVE ResolveSteps(_, _)
ResolveSteps(parts, current) ==
  IF parts = <<>> THEN OrEmpty(current)
  ELSE IF IsNullish(current) THEN EmptyStr
  ELSE LET m == IndexMatch(Head(parts))
       IN IF m.matched
          THEN LET c == Get(current, m.key)
               IN IF c.t = "arr"
                  THEN IF m.index = <<"*">>
                       THEN c
                       ELSE ResolveSteps(Tail(parts),
                              IF ParseInt(m.index) < Len(c.v)
                              THEN c.v[ParseInt(m.index) + 1] ELSE Undef)
                  ELSE ResolveSteps(Tail(parts), c)
          ELSE ResolveSteps(Tail(parts), Get(current, Head(parts)))

resolveProperty(path, obj) == ResolveSteps(SplitChar(path, "."), obj)

resolveMeta(expression, variables) ==
  LET metadata == Get(variables, <<"m","e","t","a","d","a","t","a">>)
      parts == SplitChar(expression, ":")
  IN IF ~Truthy(metadata) THEN EmptyStr
     ELSE IF Len(parts) >= 2 /\ parts[1] \in {<<"n","a","m","e">>, <<"p","r","o","p","e","r","t","y">>}
          THEN OrEmpty(Get(metadata, <<"m","e","t","a","_">> \o parts[1] \o <<"_">> \o parts[2]))
          ELSE OrEmpty(Get(metadata, expression))

resolveSelector(selector, variables) ==
  LET selectors == Get(variables, <<"_","s","e","l","e","c","t","o","r","s">>)
  IN IF Truthy(selectors) /\ Truthy(Get(selectors, selector))
     THEN Get(selectors, selector)
     ELSE EmptyStr

resolveSelectorHtml(selector, variables) ==
  LET selectorsHtml == Get(variables, <<"_","s","e","l","e","c","t","o","r","s","H","t","m","l">>)
  IN IF Truthy(selectorsHtml) /\ Truthy(Get(selectorsHtml, selector))
     THEN Get(selectorsHtml, selector)
     ELSE EmptyStr

RECURSIVE SchemaSearch(_, _)
SchemaSearch(types, expression) ==
  IF types = <<>> THEN EmptyStr
  ELSE IF Head(types).t \in {"obj", "arr"}
          /\ resolveProperty(expression, Head(types)) # EmptyStr
       THEN resolveProperty(expression, Head(types))
       ELSE SchemaSearch(Tail(types), expression)

resolveSchema(expression, variables) ==
  LET schema == Get(variables, <<"_","s","c","h","e","m","a">>)
      colonIndex == IndexOf(expression, ":")
  IN IF ~Truthy(schema) THEN EmptyStr
     ELSE IF StartsWith(expression, <<"@">>)
          THEN IF colonIndex > -1
                  /\ Truthy(Get(schema, Slice(expression, 1, colonIndex)))
               THEN resolveProperty(SliceFrom(expression, colonIndex + 1),
                                    Get(schema, Slice(expression, 1, colonIndex)))
               ELSE EmptyStr
          ELSE SchemaSearch(ObjectValues(schema), expression)

\* resolve without the prompt-literal rule: a quoted name is looked up as a
\* property path
resolve_noPromptLiteral(name, variables) ==
  IF name.t # "str"
  THEN Throw("Cannot read properties of undefined (reading 'startsWith')")
  ELSE Ok(resolveProperty(name.v, variables))

\* name is a value: a text, or undefined when the expression had no segment
resolve(name, variables) ==
  IF name.t # "str"
  THEN Throw("Cannot read properties of undefined (reading 'startsWith')")
  ELSE IF StartsWith(name.v, <<"\"">>) /\ EndsWith(name.v, <<"\"">>)
       THEN Ok(Str(<<"{","{">> \o name.v \o <<"}","}">>))
  ELSE IF StartsWith(name.v, <<"m","e","t","a",":">>) THEN Ok(resolveMeta(SliceFrom(name.v, 5), variables))
  ELSE IF StartsWith(name.v, <<"s","e","l","e","c","t","o","r",":">>) THEN Ok(resolveSelector(SliceFrom(name.v, 9), variables))
  ELSE IF StartsWith(name.v, <<"s","e","l","e","c","t","o","r","H","t","m","l",":">>) THEN Ok(resolveSelectorHtml(SliceFrom(name.v, 13), variables))
  ELSE IF StartsWith(name.v, <<"s","c","h","e","m","a",":">>) THEN Ok(resolveSchema(SliceFrom(name.v, 7), variables))
  ELSE Ok(resolveProperty(name.v, variables))

(* ---------------------------------------------------------------------- *)
(* Conversions to text                                                     *)
(* ---------------------------------------------------------------------- *)
\* String(x); Array.prototype.join maps null and undefined elements to ''
RECURSIVE ToStringJS(_)
JoinValues(xs, sep) ==
  JoinText([i \in DOMAIN xs |-> IF IsNullish(xs[i]) THEN <<>> ELSE ToStringJS(xs[i])], sep)
ToStringJS(x) ==
  CASE x.t = "str" -> x.v
    [] x.t = "num" -> NumToText(x.v)
    [] x.t = "bool" -> IF x.v THEN <<"t","r","u","e">> ELSE <<"f","a","l","s","e">>
    [] x.t = "null" -> <<"n","u","l","l">>
    [] x.t = "undef" -> <<"u","n","d","e","f","i","n","e","d">>
    [] x.t = "arr" -> JoinValues(x.v, <<",">>)
    [] x.t = "obj" -> <<"[","o","b","j","e","c","t"," ","O","b","j","e","c","t","]">>
    [] OTHER -> <<"f","u","n","c","t","i","o","n"," ">> \o x.v.name \o <<"(",")"," ","{"," ","[","n","a","t","i","v","e"," ","c","o","d","e","]"," ","}">>

JsonQuote(s) ==
  <<"\"">> \o Concat([i \in DOMAIN s |->
                       IF s[i] \in {"\"", "\\"} THEN <<"\\", s[i]>>
                       ELSE IF s[i] = "\n" THEN <<"\\", "n">>
                       ELSE IF s[i] = "\t" THEN <<"\\", "t">>
                       ELSE <<s[i]>>]) \o <<"\"">>

\* JSON.stringify(x) without indentation; members that are undefined or
\* functions are dropped from objects and written as null in arrays
RECURSIVE JsonText(_)
JsonText(x) ==
  CASE x.t = "str" -> JsonQuote(x.v)
    [] x.t = "num" -> NumToText(x.v)
    [] x.t = "bool" -> IF x.v THEN <<"t","r","u","e">> ELSE <<"f","a","l","s","e">>
    [] x.t = "arr" ->
         <<"[">> \o JoinText([i \in DOMAIN x.v |->
                     IF x.v[i].t \in {"undef", "fn"} THEN <<"n","u","l","l">> ELSE JsonText(x.v[i])],
                   <<",">>) \o <<"]">>
    [] x.t = "obj" ->
         LET kept == SelectSeq(x.v, LAMBDA e : e.v.t \notin {"undef", "fn"})
         IN <<"{">> \o JoinText([i \in DOMAIN kept |->
                        JsonQuote(kept[i].k) \o <<":">> \o JsonText(kept[i].v)],
                      <<",">>) \o <<"}">>
    [] OTHER -> <<"n","u","l","l">>

(* ---------------------------------------------------------------------- *)
(* Regular expressions as used by the replace filter                       *)
(* ---------------------------------------------------------------------- *)
\* new RegExp(p, 'g') raises SyntaxError for an unbalanced group, an
\* unterminated class, a quantifier with nothing to repeat or a trailing
\* backslash
RECURSIVE GroupDepthOk(_, _)
GroupDepthOk(p, depth) ==
  IF p = <<>> THEN depth = 0
  ELSE IF Head(p) = "(" THEN GroupDepthOk(Tail(p), depth + 1)
  ELSE IF Head(p) = ")" THEN depth > 0 /\ GroupDepthOk(Tail(p), depth - 1)
  ELSE GroupDepthOk(Tail(p), depth)

RegExpCompiles(p) ==
  /\ GroupDepthOk(p, 0)
  /\ \A i \in DOMAIN p : p[i] = "[" => \E j \in (i + 1)..Len(p) : p[j] = "]"
  /\ p # <<>> => p[1] \notin {"*", "+", "?"}
  /\ p # <<>> => p[Len(p)] # "\\"

\* the patterns the model matches are texts of literal characters and '.'
PatternMatchesAt(s, i, p) ==
  /\ i + Len(p) - 1 <= Len(s)
  /\ \A k \in DOMAIN p : p[k] = "." \/ s[i + k - 1] = p[k]

\* s.replace(/p/g, r) for a compiled pattern p; an empty pattern matches
\* before every character and at the end
RECURSIVE ReplaceFrom(_, _, _, _)
ReplaceFrom(s, i, p, r) ==
  IF i > Len(s) THEN (IF p = <<>> THEN r ELSE <<>>)
  ELSE IF p = <<>> THEN r \o <<s[i]>> \o ReplaceFrom(s, i + 1, p, r)
  ELSE IF PatternMatchesAt(s, i, p) THEN r \o ReplaceFrom(s, i + Len(p), p, r)
  ELSE <<s[i]>> \o ReplaceFrom(s, i + 1, p, r)
ReplaceAll(s, p, r) == ReplaceFrom(s, 1, p, r)

\* s.split(sep) for a text separator
RECURSIVE SplitFrom(_, _, _, _)
SplitFrom(s, i, sep, cur) ==
  IF i > Len(s) THEN <<cur>>
  ELSE IF i + Len(sep) - 1 <= Len(s) /\ SubSeq(s, i, i + Len(sep) - 1) = sep
       THEN <<cur>> \o SplitFrom(s, i + Len(sep), sep, <<>>)
       ELSE SplitFrom(s, i + 1, sep, cur \o <<s[i]>>)
SplitText(s, sep) ==
  IF sep = <<>> THEN [i \in DOMAIN s |-> <<s[i]>>]
  ELSE SplitFrom(s, 1, sep, <<>>)

RECURSIVE Reverse(_)
Reverse(s) == IF s = <<>> THEN <<>> ELSE Reverse(Tail(s)) \o <<Head(s)>>

\* [...new Set(xs)]: first occurrences, objects and arrays compared by identity
RECURSIVE UniqueFrom(_, _)
UniqueFrom(xs, seen) ==
  IF xs = <<>> THEN <<>>
  ELSE IF Head(xs).t \notin {"arr", "obj"} /\ \E i \in DOMAIN seen : seen[i] = Head(xs)
       THEN UniqueFrom(Tail(xs), seen)
       ELSE <<Head(xs)>> \o UniqueFrom(Tail(xs), Append(seen, Head(xs)))

(* ---------------------------------------------------------------------- *)
(* FilterProcessor                                                         *)
(* ---------------------------------------------------------------------- *)
\* the i-th string argument of a filter call, undefined when not supplied
Arg(args, i) == IF Len(args) >= i THEN Str(args[i]) ELSE Undef
ArgOr(args, i, dflt) == IF Len(args) >= i THEN args[i] ELSE dflt

\* the first position at or after i where the text p occurs in s, 0 when
\* there is none
FirstAt(s, p, i) ==
  IF \E k \in i..(Len(s) - Len(p) + 1) : SubSeq(s, k, k + Len(p) - 1) = p
  THEN CHOOSE k \in i..(Len(s) - Len(p) + 1) :
         /\ SubSeq(s, k, k + Len(p) - 1) = p
         /\ \A j \in i..(k - 1) : SubSeq(s, j, j + Len(p) - 1) # p
  ELSE 0
\* s.replace(p, r) for a text pattern p: the first occurrence only
SpliceAt(s, i, n, r) ==
  IF i = 0 THEN s ELSE SubSeq(s, 1, i - 1) \o r \o SubSeq(s, i + n, Len(s))
ReplaceFirst(s, p, r) == SpliceAt(s, FirstAt(s, p, 1), Len(p), r)

\* String(n).padStart(2, '0')
PadStart2(n) == IF n < 10 THEN <<"0">> \o NumToText(n) ELSE NumToText(n)

\* new Date(text): the texts of the model are local date-times written
\* YYYY-MM-DDTHH:mm:ss, which every engine reads field by field, and texts
\* without a digit, which no engine reads as a date
IsLeapYear(y) == (y % 4 = 0 /\ y % 100 # 0) \/ y % 400 = 0
DaysInMonth(y, m) ==
  IF m = 2 THEN (IF IsLeapYear(y) THEN 29 ELSE 28)
  ELSE IF m \in {4, 6, 9, 11} THEN 30 ELSE 31
InvalidDate ==
  [valid |-> FALSE, year |-> 0, month |-> 0, day |-> 0, hours |-> 0, minutes |-> 0, seconds |-> 0]
DateFields(t) ==
  [valid |-> TRUE, year |-> ParseInt(SubSeq(t, 1, 4)), month |-> ParseInt(SubSeq(t, 6, 7)),
   day |-> ParseInt(SubSeq(t, 9, 10)), hours |-> ParseInt(SubSeq(t, 12, 13)),
   minutes |-> ParseInt(SubSeq(t, 15, 16)), seconds |-> ParseInt(SubSeq(t, 18, 19))]
FieldsInRange(d) ==
  /\ d.month \in 1..12
  /\ d.day \in 1..DaysInMonth(d.year, d.month)
  /\ d.hours \in 0..23 /\ d.minutes \in 0..59 /\ d.seconds \in 0..59
NewDate(t) ==
  IF /\ Len(t) = 19
     /\ t[5] = "-" /\ t[8] = "-" /\ t[11] = "T" /\ t[14] = ":" /\ t[17] = ":"
     /\ \A i \in (1..19) \ {5, 8, 11, 14, 17} : IsDigit(t[i])
     /\ FieldsInRange(DateFields(t))
  THEN DateFields(t)
  ELSE InvalidDate

\* format.replace('YYYY', ...).replace('MM', ...) ... .replace('ss', ...)
FormatDate(format, date) ==
  ReplaceFirst(
    ReplaceFirst(
      ReplaceFirst(
        ReplaceFirst(
          ReplaceFirst(
            ReplaceFirst(format, <<"Y","Y","Y","Y">>, NumToText(date.year)),
            <<"M","M">>, PadStart2(date.month)),
          <<"D","D">>, PadStart2(date.day)),
        <<"H","H">>, PadStart2(date.hours)),
      <<"m","m">>, PadStart2(date.minutes)),
    <<"s","s">>, PadStart2(date.seconds))

filter_date(value, args) ==
  IF ~NewDate(ToStringJS(value)).valid THEN Ok(value)
  ELSE Ok(Str(FormatDate(ArgOr(args, 1, <<"Y","Y","Y","Y","-","M","M","-","D","D">>), NewDate(ToStringJS(value)))))

filter_lower(value, args) == Ok(Str(ToLowerCase(ToStringJS(value))))
filter_upper(value, args) == Ok(Str(ToUpperCase(ToStringJS(value))))
\* capitalize that leaves the characters after the first as they are
filter_capitalize_keepsRest(value, args) ==
  LET str == ToStringJS(value)
  IN Ok(Str(ToUpperCase(Slice(str, 0, 1)) \o SliceFrom(str, 1)))

filter_capitalize(value, args) ==
  LET str == ToStringJS(value)
  IN Ok(Str(ToUpperCase(Slice(str, 0, 1)) \o ToLowerCase(SliceFrom(str, 1))))
filter_trim(value, args) == Ok(Str(Trim(ToStringJS(value))))

\* new RegExp(undefined, 'g') is the empty pattern
filter_replace(value, args) ==
  LET search == ArgOr(args, 1, <<>>)
      replace == ArgOr(args, 2, <<>>)
  IN IF ~RegExpCompiles(search)
     THEN Throw("Invalid regular expression")
     ELSE Ok(Str(ReplaceAll(ToStringJS(value), search, replace)))

\* join that always uses its default separator
filter_join_ignoresSeparator(value, args) ==
  IF value.t = "arr" THEN Ok(Str(JoinValues(value.v, <<","," ">>)))
  ELSE Ok(value)
filter_join(value, args) ==
  IF value.t = "arr" THEN Ok(Str(JoinValues(value.v, ArgOr(args, 1, <<","," ">>))))
  ELSE Ok(value)
filter_split(value, args) ==
  LET pieces == SplitText(ToStringJS(value), ArgOr(args, 1, <<",">>))
  IN Ok(Arr([i \in DOMAIN pieces |-> Str(pieces[i])]))
filter_first(value, args) ==
  IF value.t = "arr"
  THEN Ok(IF value.v = <<>> THEN Undef ELSE value.v[1])
  ELSE Ok(value)
filter_last(value, args) ==
  IF value.t = "arr"
  THEN Ok(IF value.v = <<>> THEN Undef ELSE value.v[Len(value.v)])
  ELSE Ok(value)
filter_unique(value, args) ==
  IF value.t = "arr" THEN Ok(Arr(UniqueFrom(value.v, <<>>))) ELSE Ok(value)
\* one line of the list filter: the item in a template literal
ListLine(type, index, item) ==
  CASE type = <<"n","u","m","b","e","r","e","d">> -> NumToText(index) \o <<"."," ">> \o ToStringJS(item)
    [] type = <<"t","a","s","k">> -> <<"-"," ","["," ","]"," ">> \o ToStringJS(item)
    [] type = <<"n","u","m","b","e","r","e","d","-","t","a","s","k">> -> NumToText(index) \o <<"."," ","["," ","]"," ">> \o ToStringJS(item)
    [] OTHER -> <<"-"," ">> \o ToStringJS(item)
filter_list(value, args) ==
  IF value.t # "arr" THEN Ok(value)
  ELSE Ok(Str(JoinText([i \in DOMAIN value.v |->
                          ListLine(ArgOr(args, 1, <<"b","u","l","l","e","t">>), i, value.v[i])],
                       <<"\n">>)))
filter_length(value, args) ==
  IF value.t \in {"arr", "str"} THEN Ok(Num(Len(value.v)))
  ELSE IF value.t = "obj" THEN Ok(Num(Len(value.v)))
  ELSE Ok(Num(0))
\* default that tests the value for falsiness
filter_default_falsy(value, args) ==
  IF ~Truthy(value) THEN Ok(Str(ArgOr(args, 1, <<>>))) ELSE Ok(value)
filter_default(value, args) ==
  IF IsNullish(value) \/ value = EmptyStr
  THEN Ok(Str(ArgOr(args, 1, <<>>)))
  ELSE Ok(value)

\* the characters a file name must not hold
FilenameForbidden == {"<", ">", ":", "\"", "/", "\\", "|", "?", "*"}

\* s.replace(/\s+/g, ' ')
RECURSIVE CollapseSpaces(_)
CollapseSpaces(s) ==
  IF s = <<>> THEN <<>>
  ELSE IF IsSpace(Head(s)) THEN <<" ">> \o CollapseSpaces(TrimStart(s))
  ELSE <<Head(s)>> \o CollapseSpaces(Tail(s))

\* safe_name that trims before it strips and collapses
filter_safe_name_trimsFirst(value, args) ==
  Ok(Str(CollapseSpaces(SelectSeq(Trim(ToStringJS(value)), LAMBDA c : c \notin FilenameForbidden))))

filter_safe_name(value, args) ==
  Ok(Str(Trim(CollapseSpaces(SelectSeq(ToStringJS(value), LAMBDA c : c \notin FilenameForbidden)))))

\* the custom filter of the documentation's registerFilter example
custom_reverse(value, args) == Ok(Str(Reverse(ToStringJS(value))))
\* a custom filter that surrounds the text with brackets
custom_bracket(value, args) == Ok(Str(<<"[">> \o ToStringJS(value) \o <<"]">>))

\* calling the function stored in the table under an identifier
CallFilter(fn, value, args) ==
  CASE fn = "date" -> filter_date(value, args)
    [] fn = "lower" -> filter_lower(value, args)
    [] fn = "upper" -> filter_upper(value, args)
    [] fn = "capitalize" -> filter_capitalize(value, args)
    [] fn = "trim" -> filter_trim(value, args)
    [] fn = "replace" -> filter_replace(value, args)
    [] fn = "join" -> filter_join(value, args)
    [] fn = "split" -> filter_split(value, args)
    [] fn = "first" -> filter_first(value, args)
    [] fn = "last" -> filter_last(value, args)
    [] fn = "unique" -> filter_unique(value, args)
    [] fn = "list" -> filter_list(value, args)
    [] fn = "length" -> filter_length(value, args)
    [] fn = "default" -> filter_default(value, args)
    [] fn = "safe_name" -> filter_safe_name(value, args)
    [] fn = "custom_reverse" -> custom_reverse(value, args)
    [] fn = "custom_bracket" -> custom_bracket(value, args)

\* FilterProcessor.register: Map.set
register(fs, name, fn) ==
  [k \in DOMAIN fs \cup {name} |-> IF k = name THEN fn ELSE fs[k]]

\* apply that calls the looked-up function optionally: an unknown name
\* yields undefined
apply_unknownYieldsUndefined(fs, name, value, args) ==
  IF name \notin DOMAIN fs THEN Ok(Undef)
  ELSE CallFilter(fs[name], value, args)

\* FilterProcessor.apply
apply(fs, name, value, args) ==
  IF name \notin DOMAIN fs THEN Ok(value)
  ELSE CallFilter(fs[name], value, args)

\* the built-in filters the model covers, in registration order
BuiltinList ==
  << <<<<"d","a","t","e">>, "date">>,
     <<<<"l","o","w","e","r">>, "lower">>, <<<<"u","p","p","e","r">>, "upper">>, <<<<"c","a","p","i","t","a","l","i","z","e">>, "capitalize">>,
     <<<<"t","r","i","m">>, "trim">>, <<<<"r","e","p","l","a","c","e">>, "replace">>, <<<<"j","o","i","n">>, "join">>,
     <<<<"s","p","l","i","t">>, "split">>, <<<<"f","i","r","s","t">>, "first">>, <<<<"l","a","s","t">>, "last">>,
     <<<<"u","n","i","q","u","e">>, "unique">>, <<<<"l","i","s","t">>, "list">>, <<<<"l","e","n","g","t","h">>, "length">>, <<<<"d","e","f","a","u","l","t">>, "default">>,
     <<<<"s","a","f","e","_","n","a","m","e">>, "safe_name">> >>

RECURSIVE RegisterAll(_, _)
RegisterAll(fs, list) ==
  IF list = <<>> THEN fs
  ELSE RegisterAll(register(fs, Head(list)[1], Head(list)[2]), Tail(list))

registerBuiltinFilters == RegisterAll(<<>>, BuiltinList)

(* ---------------------------------------------------------------------- *)
(* TemplateEngine                                                          *)
(* ---------------------------------------------------------------------- *)
\* the scan as a strict parser would end it: the text accumulated when the
\* end is reached inside a quote or with unbalanced parentheses is dropped
RECURSIVE ScanSplit_dropsOpenSegment(_, _, _, _, _, _, _)
ScanSplit_dropsOpenSegment(s, i, sep, current, inQuotes, quoteChar, depth) ==
  IF i > Len(s)
  THEN (IF Trim(current) # <<>> /\ ~inQuotes /\ depth = 0
        THEN <<Trim(current)>> ELSE <<>>)
  ELSE LET char == s[i]
       IN IF char \in {"\"", "'"} /\ (i = 1 \/ s[i - 1] # "\\")
          THEN IF ~inQuotes
               THEN ScanSplit_dropsOpenSegment(s, i + 1, sep, Append(current, char),
                                               TRUE, char, depth)
               ELSE ScanSplit_dropsOpenSegment(s, i + 1, sep, Append(current, char),
                                               char # quoteChar, quoteChar, depth)
          ELSE IF char = "(" /\ ~inQuotes
          THEN ScanSplit_dropsOpenSegment(s, i + 1, sep, Append(current, char),
                                          inQuotes, quoteChar, depth + 1)
          ELSE IF char = ")" /\ ~inQuotes
          THEN ScanSplit_dropsOpenSegment(s, i + 1, sep, Append(current, char),
                                          inQuotes, quoteChar, depth - 1)
          ELSE IF char = sep /\ ~inQuotes /\ depth = 0
          THEN (IF Trim(current) # <<>> THEN <<Trim(current)>> ELSE <<>>)
               \o ScanSplit_dropsOpenSegment(s, i + 1, sep, <<>>, inQuotes, quoteChar, depth)
          ELSE ScanSplit_dropsOpenSegment(s, i + 1, sep, Append(current, char),
                                          inQuotes, quoteChar, depth)

\* the quote- and parenthesis-aware scan shared by parseExpression (sep "|")
\* and parseFilterArgs (sep ","): the pieces, trimmed, empty ones dropped
RECURSIVE ScanSplit(_, _, _, _, _, _, _)
ScanSplit(s, i, sep, current, inQuotes, quoteChar, depth) ==
  IF i > Len(s)
  THEN (IF Trim(current) # <<>> THEN <<Trim(current)>> ELSE <<>>)
  ELSE LET char == s[i]
       IN IF char \in {"\"", "'"} /\ (i = 1 \/ s[i - 1] # "\\")
          THEN IF ~inQuotes
               THEN ScanSplit(s, i + 1, sep, Append(current, char), TRUE, char, depth)
               ELSE ScanSplit(s, i + 1, sep, Append(current, char),
                              char # quoteChar, quoteChar, depth)
          ELSE IF char = "(" /\ ~inQuotes
          THEN ScanSplit(s, i + 1, sep, Append(current, char), inQuotes, quoteChar, depth + 1)
          ELSE IF char = ")" /\ ~inQuotes
          THEN ScanSplit(s, i + 1, sep, Append(current, char), inQuotes, quoteChar, depth - 1)
          ELSE IF char = sep /\ ~inQuotes /\ depth = 0
          THEN (IF Trim(current) # <<>> THEN <<Trim(current)>> ELSE <<>>)
               \o ScanSplit(s, i + 1, sep, <<>>, inQuotes, quoteChar, depth)
          ELSE ScanSplit(s, i + 1, sep, Append(current, char), inQuotes, quoteChar, depth)

\* a split at every pipe, quoted or not
parseExpression_splitsEveryPipe(expression) ==
  SelectSeq([i \in DOMAIN SplitChar(expression, "|") |->
               Trim(SplitChar(expression, "|")[i])],
            LAMBDA seg : seg # <<>>)

parseExpression(expression) == ScanSplit(expression, 1, "|", <<>>, FALSE, "", 0)

unquote(str) ==
  IF \/ (StartsWith(str, <<"\"">>) /\ EndsWith(str, <<"\"">>))
     \/ (StartsWith(str, <<"'">>) /\ EndsWith(str, <<"'">>))
  THEN Slice(str, 1, -1)
  ELSE str

parseFilterArgs(argsString) ==
  LET inner == IF StartsWith(argsString, <<"(">>) /\ EndsWith(argsString, <<")">>)
               THEN Slice(argsString, 1, -1)
               ELSE argsString
      pieces == ScanSplit(inner, 1, ",", <<>>, FALSE, "", 0)
  IN [i \in DOMAIN pieces |-> unquote(pieces[i])]

parseFilter(filter) ==
  LET colonIndex == IndexOf(filter, ":")
  IN IF colonIndex = -1
     THEN [name |-> filter, args |-> <<>>]
     ELSE [name |-> Trim(Slice(filter, 0, colonIndex)),
           args |-> parseFilterArgs(Trim(SliceFrom(filter, colonIndex + 1)))]

\* stringify that joins a sequence with a bare comma
stringify_joinsWithComma(value) ==
  CASE IsNullish(value) -> <<>>
    [] value.t = "str" -> value.v
    [] value.t = "arr" -> JoinValues(value.v, <<",">>)
    [] value.t = "obj" -> JsonText(value)
    [] OTHER -> ToStringJS(value)

stringify(value) ==
  CASE IsNullish(value) -> <<>>
    [] value.t = "str" -> value.v
    [] value.t = "arr" -> JoinValues(value.v, <<","," ">>)
    [] value.t = "obj" -> JsonText(value)
    [] OTHER -> ToStringJS(value)

\* this.filterProcessor.apply(name, value, ...args) for a parsed filter
ApplyParsed(fs, pf, value) == apply(fs, pf.name, value, pf.args)

\* the filter loop run from the last segment to the first
RECURSIVE ApplyFilters_rightToLeft(_, _, _)
ApplyFilters_rightToLeft(fs, filters, res) ==
  IF res.thrown \/ filters = <<>> THEN res
  ELSE ApplyFilters_rightToLeft(fs, SubSeq(filters, 1, Len(filters) - 1),
                                ApplyParsed(fs, parseFilter(filters[Len(filters)]),
                                            res.val))

\* the for loop over the filter segments; a throw ends it
RECURSIVE ApplyFilters(_, _, _)
ApplyFilters(fs, filters, res) ==
  IF res.thrown \/ filters = <<>> THEN res
  ELSE ApplyFilters(fs, Tail(filters),
                    ApplyParsed(fs, parseFilter(Head(filters)), res.val))

\* return this.stringify(value), unless an error is propagating
Stringified(res) == IF res.thrown THEN res ELSE Ok(Str(stringify(res.val)))

\* const variableName = parts[0]: undefined when there is no segment
VariableNameOf(parts) == IF parts = <<>> THEN Undef ELSE Str(parts[1])
\* const filters = parts.slice(1)
FilterChainOf(parts) == IF parts = <<>> THEN <<>> ELSE Tail(parts)

\* the variable resolved, the filters applied, the value made a text
ProcessParts(fs, parts, variables) ==
  Stringified(ApplyFilters(fs, FilterChainOf(parts),
                           resolve(VariableNameOf(parts), variables)))

processExpression(fs, expression, variables) ==
  ProcessParts(fs, parseExpression(expression), variables)

\* position of the first "}" at or after i, Len(t) + 1 when there is none
FirstClose(t, i) ==
  IF \E k \in i..Len(t) : t[k] = "}"
  THEN CHOOSE k \in i..Len(t) : t[k] = "}" /\ \A j \in i..(k - 1) : t[j] # "}"
  ELSE Len(t) + 1

\* template.replace(/\{\{([^}]+)\}\}/g, callback), scanning from position i
\* a replaced or copied piece followed by the rest of the output; the
\* first error thrown by a callback ends the replace
Glue(piece, rest) ==
  IF piece.thrown THEN piece
  ELSE IF rest.thrown THEN rest
  ELSE Ok(Str(piece.val.v \o rest.val.v))

\* the regular expression matches at i, its closing braces at k and k + 1
MatchesAt(t, i, k) ==
  /\ i + 1 <= Len(t) /\ t[i] = "{" /\ t[i + 1] = "{"
  /\ k > i + 2 /\ k + 1 <= Len(t) /\ t[k + 1] = "}"

RECURSIVE RenderFrom(_, _, _, _)
RenderFrom(fs, t, i, variables) ==
  IF i > Len(t) THEN Ok(Str(<<>>))
  ELSE IF MatchesAt(t, i, FirstClose(t, i + 2))
  THEN Glue(processExpression(fs, Trim(SubSeq(t, i + 2, FirstClose(t, i + 2) - 1)),
                              variables),
            RenderFrom(fs, t, FirstClose(t, i + 2) + 2, variables))
  ELSE Glue(Ok(Str(<<t[i]>>)), RenderFrom(fs, t, i + 1, variables))

\* render that scans its own output once more
render_rescansOutput(fs, template, variables) ==
  LET first == RenderFrom(fs, template, 1, variables)
  IN IF first.thrown THEN first ELSE RenderFrom(fs, first.val.v, 1, variables)

\* render that trims the whole template before scanning it
render_trimsTemplate(fs, template, variables) ==
  RenderFrom(fs, Trim(template), 1, variables)

render(fs, template, variables) == RenderFrom(fs, template, 1, variables)

(* ---------------------------------------------------------------------- *)
(* ContentExtractor                                                        *)
(* ---------------------------------------------------------------------- *)
\* A page is given as the parsed document, a record of the texts the DOM
\* queries return: [ogTitle, twitterTitle, title, main].  An html option
\* that is absent is Undef.
extractTitle(doc) ==
  IF doc.ogTitle # <<>> THEN doc.ogTitle
  ELSE IF doc.twitterTitle # <<>> THEN doc.twitterTitle
  ELSE doc.title

\* the fields of ExtractedContent the clip workflow reads
extractFromHtml(doc, url) ==
  Ok(Obj(<< Entry(<<"t","i","t","l","e">>, Str(extractTitle(doc))),
            Entry(<<"c","o","n","t","e","n","t">>, Str(doc.main)),
            Entry(<<"m","a","r","k","d","o","w","n">>, Str(doc.main)),
            Entry(<<"u","r","l">>, Str(url)) >>))

extractFromUrl(url) == Throw("URL extraction should be handled by content script")

\* options = [url |-> text, html |-> document or Undef]; an absent url is ''
extract(options) ==
  IF options.html # Undef THEN extractFromHtml(options.html, options.url)
  ELSE IF options.url # <<>> THEN extractFromUrl(options.url)
  ELSE Throw("Either url or html must be provided")

(* ---------------------------------------------------------------------- *)
(* MarkdownConverter                                                       *)
(* ---------------------------------------------------------------------- *)
\* The documents of the model are lower-case texts built from h1..h6, p, ul,
\* ol and li elements without attributes and from text without "<" and "&":
\* the replacements of convert for bold, italic, links, images, code,
\* blockquotes, rules and line breaks and the entity decoding match nothing
\* in them and are not written out.
StartsAt(s, i, p) == i + Len(p) - 1 <= Len(s) /\ SubSeq(s, i, i + Len(p) - 1) = p

NoElement == [matched |-> FALSE, content |-> <<>>, next |-> 0]

\* the match of /<tag[^>]*>(...)<\/tag>/ whose opening tag ends at g and
\* whose closing tag starts at c; "." in (.*?) matches no line break, [\s\S]
\* in ([\s\S]*?) does (dotAll)
ElementTo(s, tag, dotAll, g, c) ==
  IF c = 0 \/ (~dotAll /\ \E j \in (g + 1)..(c - 1) : s[j] = "\n") THEN NoElement
  ELSE [matched |-> TRUE, content |-> SubSeq(s, g + 1, c - 1), next |-> c + Len(tag) + 3]
ElementFrom(s, tag, dotAll, g) ==
  IF g = 0 THEN NoElement
  ELSE ElementTo(s, tag, dotAll, g, FirstAt(s, <<"<","/">> \o tag \o <<">">>, g + 1))
ElementAt(s, i, tag, dotAll) ==
  IF ~StartsAt(s, i, <<"<">> \o tag) THEN NoElement
  ELSE ElementFrom(s, tag, dotAll, FirstAt(s, <<">">>, i + Len(tag) + 1))

\* s.replace(/<tag[^>]*>(.*?)<\/tag>/gi, prefix + '$1' + suffix), from i on
RECURSIVE ReplaceWrapped(_, _, _, _, _)
WrappedStep(s, i, tag, prefix, suffix, m) ==
  IF m.matched
  THEN prefix \o m.content \o suffix \o ReplaceWrapped(s, m.next, tag, prefix, suffix)
  ELSE <<s[i]>> \o ReplaceWrapped(s, i + 1, tag, prefix, suffix)
ReplaceWrapped(s, i, tag, prefix, suffix) ==
  IF i > Len(s) THEN <<>>
  ELSE WrappedStep(s, i, tag, prefix, suffix, ElementAt(s, i, tag, FALSE))

\* the headings h1 to h6 and the paragraphs
ConvertBlocks(html) ==
  ReplaceWrapped(
    ReplaceWrapped(
      ReplaceWrapped(
        ReplaceWrapped(
          ReplaceWrapped(
            ReplaceWrapped(
              ReplaceWrapped(html, 1, <<"h","1">>, <<"#"," ">>, <<"\n", "\n">>),
              1, <<"h","2">>, <<"#","#"," ">>, <<"\n", "\n">>),
            1, <<"h","3">>, <<"#","#","#"," ">>, <<"\n", "\n">>),
          1, <<"h","4">>, <<"#","#","#","#"," ">>, <<"\n", "\n">>),
        1, <<"h","5">>, <<"#","#","#","#","#"," ">>, <<"\n", "\n">>),
      1, <<"h","6">>, <<"#","#","#","#","#","#"," ">>, <<"\n", "\n">>),
    1, <<"p">>, <<>>, <<"\n", "\n">>)

\* the replacement of one <li>: for a bullet list the replacement is a text,
\* in which $1 stands for the item's content; for an ordered list it is what
\* a function returns, and a function's result is inserted as it is, $1
\* included
ItemLine(ordered, listCounter, content) ==
  IF ordered THEN NumToText(listCounter) \o <<"."," ","$","1">> \o <<"\n">>
  ELSE <<"-"," ">> \o content \o <<"\n">>

\* content.replace(/<li[^>]*>(.*?)<\/li>/gi, ...), from i on
RECURSIVE ReplaceItems(_, _, _, _)
ItemStep(content, i, ordered, listCounter, m) ==
  IF m.matched
  THEN ItemLine(ordered, listCounter + 1, m.content)
         \o ReplaceItems(content, m.next, ordered, listCounter + 1)
  ELSE <<content[i]>> \o ReplaceItems(content, i + 1, ordered, listCounter)
ReplaceItems(content, i, ordered, listCounter) ==
  IF i > Len(content) THEN <<>>
  ELSE ItemStep(content, i, ordered, listCounter, ElementAt(content, i, <<"l","i">>, FALSE))

\* markdown.replace(/<ul[^>]*>([\s\S]*?)<\/ul>/gi, ...) and the same for
\* <ol>, from i on; listCounter is set to 0 for every list
RECURSIVE ReplaceLists(_, _, _)
ListStep(markdown, i, ordered, m) ==
  IF m.matched
  THEN ReplaceItems(m.content, 1, ordered, 0) \o <<"\n">>
         \o ReplaceLists(markdown, m.next, ordered)
  ELSE <<markdown[i]>> \o ReplaceLists(markdown, i + 1, ordered)
ReplaceLists(markdown, i, ordered) ==
  IF i > Len(markdown) THEN <<>>
  ELSE ListStep(markdown, i, ordered,
                ElementAt(markdown, i, IF ordered THEN <<"o","l">> ELSE <<"u","l">>, TRUE))

\* markdown.replace(/<[^>]*>/g, ''), from i on
RECURSIVE StripTags(_, _)
StripTags(s, i) ==
  IF i > Len(s) THEN <<>>
  ELSE IF s[i] = "<" /\ FirstAt(s, <<">">>, i + 1) # 0
  THEN StripTags(s, FirstAt(s, <<">">>, i + 1) + 1)
  ELSE <<s[i]>> \o StripTags(s, i + 1)

\* markdown.replace(/\n{3,}/g, '\n\n'), from i on, run line breaks before i
RECURSIVE CollapseBreaks(_, _, _)
CollapseBreaks(s, i, run) ==
  IF i > Len(s) THEN <<>>
  ELSE IF s[i] = "\n"
  THEN (IF run >= 2 THEN <<>> ELSE <<"\n">>) \o CollapseBreaks(s, i + 1, run + 1)
  ELSE <<s[i]>> \o CollapseBreaks(s, i + 1, 0)

\* MarkdownConverter.convert(html) with the default options
convert(html) ==
  Trim(CollapseBreaks(
         StripTags(ReplaceLists(ReplaceLists(ConvertBlocks(html), 1, FALSE), 1, TRUE), 1),
         1, 0))

(* ---------------------------------------------------------------------- *)
(* Clipper                                                                 *)
(* ---------------------------------------------------------------------- *)
generateFilename(title) ==
  Slice(Trim(CollapseSpaces(SelectSeq(title, LAMBDA c : c \notin FilenameForbidden))),
        0, 200) \o <<".","m","d">>

\* { ...a, ...b } for objects a and b; spreading undefined adds nothing
Spread(a, b) ==
  IF b.t # "obj" THEN a
  ELSE Obj([i \in DOMAIN a.v |->
              IF HasOwn(b.v, a.v[i].k) THEN Entry(a.v[i].k, OwnGet(b.v, a.v[i].k))
              ELSE a.v[i]]
           \o SelectSeq(b.v, LAMBDA e : ~HasOwn(a.v, e.k)))

Absent == "<absent>"

ClipFailure(message) ==
  [rejected |-> FALSE, success |-> FALSE, content |-> <<>>, filename |-> <<>>,
   error |-> message]
ClipSuccess(output, filename) ==
  [rejected |-> FALSE, success |-> TRUE, content |-> output, filename |-> filename,
   error |-> Absent]

\* the end of the try block: the filename and the returned ClipResult
ClipReturn(content, output) ==
  IF output.thrown THEN ClipFailure(output.err)
  ELSE ClipSuccess(output.val.v,
                   generateFilename(Get(content, <<"t","i","t","l","e">>).v))

\* the try block after the extraction
ClipExtracted(fs, options, content) ==
  IF content.thrown THEN ClipFailure(content.err)
  ELSE ClipReturn(content.val,
                  IF options # Undef /\ options.template # <<>>
                  THEN render(fs, options.template,
                              Spread(content.val, options.variables))
                  ELSE Ok(Get(content.val, <<"m","a","r","k","d","o","w","n">>)))

\* clip without its try/catch: a throwing step rejects the promise
clip_uncaught(fs, url, options) ==
  LET r == ClipExtracted(fs, options, extract([url |-> url, html |-> Undef]))
  IN [r EXCEPT !.rejected = ~r.success]

\* options = Undef or [template |-> text ('' when absent), variables |-> object or Undef]
clip(fs, url, options) ==
  ClipExtracted(fs, options, extract([url |-> url, html |-> Undef]))

(* ---------------------------------------------------------------------- *)
(* Background service worker: the runtime.onMessage listener               *)
(* ---------------------------------------------------------------------- *)
\* A message is [nullish, action, data]: nullish for a message that is null,
\* action a value (a text or undefined), data a record of the fields the
\* action's handler reads, or Undef.  The error of a response is
\* [text, arg]: the message text followed by the interpolated action.
ErrorOf(msg) == [text |-> msg, arg |-> <<>>]
NoError == ErrorOf(Absent)
Data(kind, x) == [t |-> kind, v |-> x]
NoData == Data("absent", 0)
Response(success, data, error) ==
  [rejected |-> FALSE, success |-> success, data |-> data, error |-> error]

\* { success: result.success, data: result, error: result.error }
ClipResponse(r) == Response(r.success, Data("clipResult", r), ErrorOf(r.error))

handleClip(fs, data) ==
  IF data = Undef
  THEN Throw("Cannot read properties of undefined (reading 'url')")
  ELSE Ok(ClipResponse(clip(fs, data.url, data.options)))

\* { success: true, data: content }, or the rejection of clipper.extract
ExtractResponse(content) ==
  IF content.thrown THEN content
  ELSE Ok(Response(TRUE, Data("content", content.val), NoError))

handleExtract(data) ==
  IF data = Undef
  THEN Throw("Cannot read properties of undefined (reading 'html')")
  ELSE ExtractResponse(extract([html |-> data.html, url |-> data.url]))

\* clipper.toMarkdown(html): html.replace on an html that is not a string
\* raises a TypeError
toMarkdown(html) ==
  IF html.t # "str"
  THEN Throw("Cannot read properties of undefined (reading 'replace')")
  ELSE Ok(Str(convert(html.v)))

\* { success: true, data: <text> }, or the error thrown by the call
TextResponse(r) ==
  IF r.thrown THEN r
  ELSE Ok(Response(TRUE, Data("text", r.val), NoError))

handleToMarkdown(data) ==
  IF data = Undef
  THEN Throw("Cannot read properties of undefined (reading 'html')")
  ELSE TextResponse(toMarkdown(data.html))

\* clipper.render(data.template, data.variables); template.replace on a
\* template that is not a string raises a TypeError
handleRender(fs, data) ==
  IF data = Undef
  THEN Throw("Cannot read properties of undefined (reading 'template')")
  ELSE IF data.template.t # "str"
  THEN Throw("Cannot read properties of undefined (reading 'replace')")
  ELSE TextResponse(render(fs, data.template.v, data.variables))

\* tabReply is what browser.tabs.sendMessage resolves to or rejects with
handleGetContent(tabId, tabReply) ==
  IF ~Truthy(tabId) THEN Ok(Response(FALSE, NoData, ErrorOf("No active tab")))
  ELSE IF tabReply.thrown THEN Ok(Response(FALSE, NoData, ErrorOf(tabReply.err)))
  ELSE Ok(Response(TRUE, Data("content", tabReply.val), NoError))

\* the switch on message.action
Dispatch(fs, message, tabId, tabReply) ==
  CASE message.action = Str(<<"c","l","i","p">>) -> handleClip(fs, message.data)
    [] message.action = Str(<<"e","x","t","r","a","c","t">>) -> handleExtract(message.data)
    [] message.action = Str(<<"t","o","M","a","r","k","d","o","w","n">>) -> handleToMarkdown(message.data)
    [] message.action = Str(<<"r","e","n","d","e","r">>) -> handleRender(fs, message.data)
    [] message.action = Str(<<"g","e","t","C","o","n","t","e","n","t">>) -> handleGetContent(tabId, tabReply)
    [] OTHER -> Ok(Response(FALSE, NoData,
                            [text |-> "Unknown action: ",
                             arg |-> ToStringJS(message.action)]))

\* the catch clause: a thrown error becomes { success: false, error }
Caught(r) ==
  IF r.thrown THEN Response(FALSE, NoData, ErrorOf(r.err)) ELSE r.val

\* the listener without its try/catch: a throwing handler rejects the promise
onMessage_uncaught(fs, message, tabId, tabReply) ==
  LET r == IF message.nullish
           THEN Throw("Cannot read properties of null (reading 'action')")
           ELSE Dispatch(fs, message, tabId, tabReply)
  IN IF r.thrown
     THEN [rejected |-> TRUE, success |-> FALSE, data |-> NoData, error |-> ErrorOf(r.err)]
     ELSE r.val

\* browser.runtime.onMessage listener
onMessage(fs, message, tabId, tabReply) ==
  Caught(IF message.nullish
         THEN Throw("Cannot read properties of null (reading 'action')")
         ELSE Dispatch(fs, message, tabId, tabReply))

\* the messages handleGetContent sends to content scripts with
\* browser.tabs.sendMessage: getPageContent to the tab it was given, nothing
\* without a tab
Relayed(message, tabId) ==
  IF ~message.nullish /\ message.action = Str(<<"g","e","t","C","o","n","t","e","n","t">>) /\ Truthy(tabId)
  THEN <<[tabId |-> tabId, action |-> <<"g","e","t","P","a","g","e","C","o","n","t","e","n","t">>]>>
  ELSE <<>>

\* browser.runtime.sendMessage(message) called in the background page: the
\* message goes to the runtime.onMessage listeners of the extension's other
\* pages, never to the listeners of the page that sends it.  The popup, the
\* only other page, registers no listener: the promise is rejected.
RuntimeSendFromBackground(message) ==
  [rejected |-> TRUE, success |-> FALSE, data |-> NoData,
   error |-> ErrorOf("Could not establish connection. Receiving end does not exist.")]

\* browser.runtime.onMessageExternal listener
onMessageExternal(fs, message) == RuntimeSendFromBackground(message)

(* ---------------------------------------------------------------------- *)
(* Popup and content script                                                *)
(* ---------------------------------------------------------------------- *)
\* sender.tab of a message the popup sends: MessageSender.tab is set only
\* when the message comes from a tab, and the popup is not in a tab
PopupSenderTab == Undef
\* sender.tab.id of a message a content script sends
ContentSenderTab == Num(7)

GetContentMessage == [nullish |-> FALSE, action |-> Str(<<"g","e","t","C","o","n","t","e","n","t">>), data |-> Undef]

\* currentContent = response.data, reached only when response.success;
\* otherwise the error is shown and currentContent keeps its value
StoreContent(current, response) ==
  IF response.success THEN response.data.v ELSE current

\* loadPageContent of the popup: what currentContent is afterwards
loadPageContent(fs, current, tabReply) ==
  StoreContent(current, onMessage(fs, GetContentMessage, PopupSenderTab, tabReply))

\* the return of quickClip after its message was answered: the response is
\* not looked at
QuickClipReport(response) == Ok(Obj(<<Entry(<<"s","u","c","c","e","s","s">>, Bool(TRUE))>>))

\* quickClip after getPageContent: browser.runtime.sendMessage({action:
\* 'clip', data: {url, content}}), awaited; data holds no options
QuickClipSend(fs, url, sendFails, content) ==
  IF content.thrown THEN content
  ELSE IF sendFails
  THEN Throw("Could not establish connection. Receiving end does not exist.")
  ELSE QuickClipReport(onMessage(fs, [nullish |-> FALSE, action |-> Str(<<"c","l","i","p">>),
                                      data |-> [url |-> url, options |-> Undef]],
                                 ContentSenderTab, Throw("not asked")))

\* quickClip of the content script on a page with the document doc
quickClip(fs, doc, url, sendFails) ==
  QuickClipSend(fs, url, sendFails, extract([html |-> doc, url |-> url]))

(* ---------------------------------------------------------------------- *)
(* Inputs                                                                  *)
(* ---------------------------------------------------------------------- *)
SeqsUpTo(S, n) == UNION {[1..k -> S] : k \in 0..n}

CtxEmpty == Obj(<<>>)
CtxMain ==
  Obj(<< Entry(<<"a">>, Str(<<"1",",","2",",","3">>)),
         Entry(<<"b">>, Str(<<" ","h","i"," ">>)),
         Entry(<<"z">>, Str(<<>>)),
         Entry(<<"n">>, Null),
         Entry(<<"i">>, Num(0)),
         Entry(<<"f">>, Bool(FALSE)),
         Entry(<<"l">>, Arr(<<Num(1), Num(2), Num(3)>>)),
         Entry(<<"o">>, Obj(<< Entry(<<"k">>, Str(<<"y">>)),
                          Entry(<<"n">>, Null),
                          Entry(<<"e">>, Obj(<<>>)) >>)) >>)
CtxZ ==
  Obj(<< Entry(<<"a">>, Str(<<"z">>)),
         Entry(<<"b">>, Str(<<"H","i">>)),
         Entry(<<"l">>, Arr(<<Num(1), Num(2)>>)) >>)

\* templates without structure: every text over a small alphabet
PlainAlphabet == {"a", "{", "}", " "}
PlainTemplates == SeqsUpTo(PlainAlphabet, MaxPlainLen)

\* the replace call of the specification's example, replace:",":";"
ReplaceColonSeg ==
  [text |-> <<"r","e","p","l","a","c","e",":","\"",",","\"",":","\"",";","\"">>,
   name |-> <<"r","e","p","l","a","c","e">>, args |-> <<<<",">>, <<";">>>>]

\* filter segments as written in a template, with the name and the
\* arguments the documented syntax gives them
FilterSegs ==
  { [text |-> <<"u","p","p","e","r">>, name |-> <<"u","p","p","e","r">>, args |-> <<>>],
    [text |-> <<"t","r","i","m">>, name |-> <<"t","r","i","m">>, args |-> <<>>],
    [text |-> <<"f","i","r","s","t">>, name |-> <<"f","i","r","s","t">>, args |-> <<>>],
    [text |-> <<"n","o","s","u","c","h","f","i","l","t","e","r">>, name |-> <<"n","o","s","u","c","h","f","i","l","t","e","r">>, args |-> <<>>],
    [text |-> <<"r","e","v","e","r","s","e">>, name |-> <<"r","e","v","e","r","s","e">>, args |-> <<>>],
    [text |-> <<"d","e","f","a","u","l","t",":","\"","d","\"">>, name |-> <<"d","e","f","a","u","l","t">>, args |-> <<<<"d">>>>],
    [text |-> <<"r","e","p","l","a","c","e",":","\"","2","\"",",","\"","2","2","\"">>, name |-> <<"r","e","p","l","a","c","e">>, args |-> <<<<"2">>, <<"2","2">>>>],
    ReplaceColonSeg }
ChainVars == {<<"a">>, <<"b">>, <<"z">>, <<"n">>, <<"l">>, <<"i">>, <<"q">>}

TemplateOf(var, chain) ==
  <<"{","{">> \o var \o Concat([i \in DOMAIN chain |-> <<"|">> \o chain[i].text]) \o <<"}","}">>

PathKeys == {<<"a">>, <<"o">>, <<"k">>, <<"n">>, <<"e">>, <<"c","o","n","s","t","r","u","c","t","o","r">>}
PathOf(keys) == JoinText(keys, <<".">>)

CuratedTemplates ==
  { <<"{","{"," ","|"," ","}","}">>, <<"{","{","|","}","}">>, <<"{","{"," ","|","u","p","p","e","r","}","}">>, <<"{","{","a","|","r","e","p","l","a","c","e",":","\"","(","\"","}","}">>, <<"{","{","a","|","r","e","p","l","a","c","e",":","\"",")","\"","}","}">>,
    <<"{","{","a","|","r","e","p","l","a","c","e","}","}">>, <<"{","{","a","|","r","e","p","l","a","c","e",":","\"",",","\"","}","}">>, <<"{","{","a","|","r","e","p","l","a","c","e",":","\"",",","\"",",","\"",";","\"","}","}">>,
    <<"x"," ","{","{","b","|","u","p","p","e","r","|","t","r","i","m","}","}"," ","y">>, <<"{","{","a","}","}","{","{","b","}","}">>, <<"{","{","a","|","d","e","f","a","u","l","t","}","}">>, <<"{","{","z","|","d","e","f","a","u","l","t",":","\"","\"","}","}">> }

\* a context with Schema.org data, Article before Recipe
CtxSchema ==
  Obj(<< Entry(<<"t","i","t","l","e">>, Str(<<"T">>)),
         Entry(<<"_","s","c","h","e","m","a">>,
               Obj(<< Entry(<<"A","r","t","i","c","l","e">>, Obj(<< Entry(<<"a","u","t","h","o","r">>, Str(<<"A">>)),
                                             Entry(<<"n","a","m","e">>, Str(<<>>)),
                                             Entry(<<"n">>, Null) >>)),
                      Entry(<<"R","e","c","i","p","e">>, Obj(<< Entry(<<"a","u","t","h","o","r">>, Str(<<"R">>)),
                                            Entry(<<"n","a","m","e">>, Str(<<"N">>)),
                                            Entry(<<"o">>, Obj(<<Entry(<<"k">>, Str(<<"y">>))>>)) >>)),
                      Entry(<<"s">>, Str(<<"s","t","r">>)) >>)) >>)

\* schema variables: {{schema:@Type:path}} and the generic {{schema:path}}
SchemaTypes == {<<"A","r","t","i","c","l","e">>, <<"R","e","c","i","p","e">>, <<"M","i","s","s","i","n","g">>, <<"s">>, <<"c","o","n","s","t","r","u","c","t","o","r">>}
SchemaKeys == {<<"a","u","t","h","o","r">>, <<"n","a","m","e">>, <<"n">>, <<"o">>, <<"k">>, <<"x">>}
SchemaPaths == SeqsUpTo(SchemaKeys, MaxSchemaPathLen) \ {<<>>}
SchemaInputs ==
  {[op |-> "render", kind |-> "schema",
    template |-> <<"{","{","s","c","h","e","m","a",":","@">> \o ty \o <<":">> \o PathOf(ks) \o <<"}","}">>,
    context |-> c, var |-> ty, chain |-> <<>>, keys |-> ks, typed |-> TRUE] :
      ty \in SchemaTypes, ks \in SchemaPaths, c \in {CtxSchema, CtxMain}}
  \cup
  {[op |-> "render", kind |-> "schema",
    template |-> <<"{","{","s","c","h","e","m","a",":">> \o PathOf(ks) \o <<"}","}">>,
    context |-> c, var |-> <<>>, chain |-> <<>>, keys |-> ks, typed |-> FALSE] :
      ks \in SchemaPaths, c \in {CtxSchema, CtxMain}}

\* prompt literals: bodies that begin and end with a double quote
PromptAlphabet == {"\"", "a", "|", " ", "\\"}
PromptBodies ==
  {<<"\"">>} \cup {<<"\"">> \o inner \o <<"\"">> : inner \in SeqsUpTo(PromptAlphabet, MaxPromptLen)}
\* a context that holds entries named like the prompt bodies
CtxPrompt ==
  Obj(<< Entry(<<"a">>, Str(<<"Y">>)), Entry(<<"\"","a","\"">>, Str(<<"X">>)), Entry(<<"\"","\"">>, Str(<<"E">>)) >>)
PromptInputs ==
  {[op |-> "render", kind |-> "prompt", template |-> <<"{","{">> \o b \o <<"}","}">>, context |-> c,
    var |-> b, chain |-> <<>>, keys |-> <<>>] :
      b \in PromptBodies, c \in {CtxEmpty, CtxPrompt}}

\* meta variables {{meta:<type>:<tagName>}} and the contexts they read
MetaTypes == {<<"n","a","m","e">>, <<"p","r","o","p","e","r","t","y">>}
MetaTagNames == {<<"d","e","s","c","r","i","p","t","i","o","n">>, <<"a","u","t","h","o","r">>, <<"o","g",":","t","i","t","l","e">>, <<"o","g",":","i","m","a","g","e">>, <<"o","g">>}
CtxMeta ==
  Obj(<< Entry(<<"m","e","t","a","d","a","t","a">>,
               Obj(<< Entry(<<"m","e","t","a","_","n","a","m","e","_","d","e","s","c","r","i","p","t","i","o","n">>, Str(<<"D">>)),
                      Entry(<<"m","e","t","a","_","n","a","m","e","_","a","u","t","h","o","r">>, Str(<<>>)),
                      Entry(<<"m","e","t","a","_","p","r","o","p","e","r","t","y","_","o","g",":","t","i","t","l","e">>, Str(<<"T">>)),
                      Entry(<<"d","e","s","c","r","i","p","t","i","o","n">>, Str(<<"p","l","a","i","n">>)) >>)) >>)
CtxMetaOg ==
  Obj(<< Entry(<<"m","e","t","a","d","a","t","a">>,
               Obj(<< Entry(<<"m","e","t","a","_","p","r","o","p","e","r","t","y","_","o","g">>, Str(<<"O">>)),
                      Entry(<<"m","e","t","a","_","p","r","o","p","e","r","t","y","_","o","g",":","t","i","t","l","e">>, Str(<<"T">>)),
                      Entry(<<"m","e","t","a","_","p","r","o","p","e","r","t","y","_","o","g",":","i","m","a","g","e">>, Null) >>)) >>)
MetaInputs ==
  {[op |-> "render", kind |-> "meta",
    template |-> <<"{","{","m","e","t","a",":">> \o ty \o <<":">> \o tag \o <<"}","}">>, context |-> c,
    var |-> ty, chain |-> <<>>, keys |-> <<tag>>] :
      ty \in MetaTypes, tag \in MetaTagNames, c \in {CtxMeta, CtxMetaOg, CtxMain}}

\* the array filters as written in a template, join with its separator
\* between double quotes
JoinSeparators == {<<","," ">>, <<"-">>, <<" ">>, <<>>, <<"|">>, <<" ",","," ">>, <<":">>}
ArraySegs ==
  {[text |-> <<"j","o","i","n",":","\"">> \o sep \o <<"\"">>, name |-> <<"j","o","i","n">>, args |-> <<sep>>] :
      sep \in JoinSeparators}
  \cup
  {[text |-> n, name |-> n, args |-> <<>>] :
      n \in {<<"j","o","i","n">>, <<"f","i","r","s","t">>, <<"l","a","s","t">>, <<"u","n","i","q","u","e">>, <<"l","i","s","t">>}}
ArrayInputs ==
  {[op |-> "render", kind |-> "array", template |-> TemplateOf(v, <<seg>>),
    context |-> c, var |-> v, chain |-> <<seg>>, keys |-> <<>>] :
      v \in {<<"l">>, <<"a">>, <<"i">>, <<"q">>}, seg \in ArraySegs, c \in {CtxMain, CtxZ}}

\* one placeholder between a text before and a text after it; the variables
\* cover every kind of value, the filters give sequences and scalars
TextVars == {<<"a">>, <<"b">>, <<"z">>, <<"n">>, <<"i">>, <<"f">>, <<"l">>, <<"o">>, <<"o",".","e">>, <<"o",".","k">>, <<"q">>}
TextSegs ==
  {[text |-> n, name |-> n, args |-> <<>>] : n \in {<<"s","p","l","i","t">>, <<"f","i","r","s","t">>, <<"l","e","n","g","t","h">>}}
TextPrefixes == {<<>>, <<"x"," ">>, <<"}"," ">>}
TextSuffixes == {<<>>, <<" ","y">>, <<"}">>, <<" ","{">>}
TextInputs ==
  {[op |-> "render", kind |-> "text",
    template |-> pre \o TemplateOf(v, ch) \o suf, context |-> c,
    var |-> v, chain |-> ch, keys |-> <<>>, prefix |-> pre, suffix |-> suf] :
      v \in TextVars, ch \in {<<>>} \cup {<<seg>> : seg \in TextSegs},
      pre \in TextPrefixes, suf \in TextSuffixes, c \in {CtxMain, CtxZ}}

\* two placeholders with a text between them, rendered with a context whose
\* values hold braces and whole placeholders
CtxNest ==
  Obj(<< Entry(<<"a">>, Str(<<"{","{","b","}","}">>)),
         Entry(<<"b">>, Str(<<"B">>)),
         Entry(<<"c">>, Str(<<"{","{">>)),
         Entry(<<"d">>, Str(<<"}","}">>)),
         Entry(<<"B">>, Str(<<"!">>)) >>)
PairBodies == {<<"a">>, <<"b">>, <<"c">>, <<"d">>, <<"a","|","u","p","p","e","r">>, <<" ","b"," ">>, <<"q">>, <<"|">>}
PairSeparators == {<<>>, <<" ">>, <<"b","}","}">>, <<"b">>}
PairInputs ==
  {[op |-> "render", kind |-> "pair",
    template |-> <<"{","{">> \o b1 \o <<"}","}">> \o sep \o <<"{","{">> \o b2 \o <<"}","}">>, context |-> c,
    var |-> <<>>, chain |-> <<>>, keys |-> <<>>, bodies |-> <<b1, b2>>, sep |-> sep] :
      b1 \in PairBodies, b2 \in PairBodies, sep \in PairSeparators,
      c \in {CtxNest, CtxZ}}

RenderInputs ==
  {[op |-> "render", kind |-> "plain", template |-> t, context |-> c,
    var |-> <<>>, chain |-> <<>>, keys |-> <<>>] :
      t \in PlainTemplates, c \in {CtxEmpty, CtxMain}}
  \cup
  {[op |-> "render", kind |-> "chain", template |-> TemplateOf(v, ch), context |-> c,
    var |-> v, chain |-> ch, keys |-> <<>>] :
      v \in ChainVars, ch \in SeqsUpTo(FilterSegs, MaxChain), c \in {CtxMain, CtxZ}}
  \cup
  {[op |-> "render", kind |-> "path", template |-> <<"{","{">> \o PathOf(ks) \o <<"}","}">>,
    context |-> c, var |-> <<>>, chain |-> <<>>, keys |-> ks] :
      ks \in SeqsUpTo(PathKeys, MaxPathLen) \ {<<>>}, c \in {CtxEmpty, CtxMain}}
  \cup
  {[op |-> "render", kind |-> "curated", template |-> t, context |-> c,
    var |-> <<>>, chain |-> <<>>, keys |-> <<>>] :
      t \in CuratedTemplates, c \in {CtxEmpty, CtxMain, CtxZ}}

ApplyNames ==
  {<<"d","e","f","a","u","l","t">>, <<"n","o","s","u","c","h","f","i","l","t","e","r">>, <<"r","e","v","e","r","s","e">>, <<"u","p","p","e","r">>, <<"f","i","r","s","t">>,
   <<"j","o","i","n">>, <<"s","p","l","i","t">>, <<"l","a","s","t">>, <<"u","n","i","q","u","e">>, <<"l","i","s","t">>}
ApplyValues ==
  { Null, Undef, EmptyStr, Str(<<"x">>), Str(<<" ">>), Str(<<"0">>), Num(0), Num(1),
    Bool(FALSE), Bool(TRUE), Arr(<<>>), Arr(<<Num(1), Num(2)>>), Obj(<<>>),
    Str(<<"a",",","b">>), Arr(<<Str(<<"x">>), Null, Str(<<"x">>)>>) }
ApplyArgs == {<<>>, <<<<"d">>>>, <<<<>>>>, <<<<","," ">>>>}
ApplyInputs ==
  {[op |-> "apply", name |-> n, value |-> x, args |-> as] :
      n \in ApplyNames, x \in ApplyValues, as \in ApplyArgs}

ClipUrls == {<<>>, <<"h","t","t","p","s",":","/","/","e","x","a","m","p","l","e",".","c","o","m">>}
ClipOptions ==
  {Undef} \cup
  {[template |-> t, variables |-> vs] :
      t \in {<<>>, <<"#"," ","{","{","t","i","t","l","e","}","}">>, <<"{","{"," ","}","}">>},
      vs \in {Undef, Obj(<<Entry(<<"t","i","t","l","e">>, Str(<<"T">>))>>)}}
ClipInputs ==
  {[op |-> "clip", url |-> u, options |-> o] : u \in ClipUrls, o \in ClipOptions}

\* messages to the background listener, with what the collaborators of the
\* handlers give: the sender's tab, the tab's reply
PageDoc == [ogTitle |-> <<>>, twitterTitle |-> <<>>, title |-> <<"T">>, main |-> <<"b","o","d","y">>]
PageContent == Obj(<<Entry(<<"t","i","t","l","e">>, Str(<<"T">>))>>)
Message(action, data) == [nullish |-> FALSE, action |-> action, data |-> data]
NullMessage == [nullish |-> TRUE, action |-> Undef, data |-> Undef]
ClipData == {[url |-> u, options |-> o] : u \in ClipUrls, o \in ClipOptions}
ExtractData ==
  {[html |-> h, url |-> u] : h \in {Undef, PageDoc}, u \in ClipUrls}
MarkdownData ==
  {[html |-> h] : h \in {Undef, Str(<<"<","p",">","x","<","/","p",">">>),
                         Str(<<"<","u","l",">","<","l","i",">","x","<","/","l","i",">","<","/","u","l",">">>)}}
RenderData ==
  {[template |-> t, variables |-> CtxMain] :
      t \in {Undef} \cup {Str(c) : c \in CuratedTemplates}}
Messages ==
  {NullMessage}
  \cup {Message(Str(<<"c","l","i","p">>), d) : d \in {Undef} \cup ClipData}
  \cup {Message(Str(<<"e","x","t","r","a","c","t">>), d) : d \in {Undef} \cup ExtractData}
  \cup {Message(Str(<<"t","o","M","a","r","k","d","o","w","n">>), d) : d \in {Undef} \cup MarkdownData}
  \cup {Message(Str(<<"r","e","n","d","e","r">>), d) : d \in {Undef} \cup RenderData}
  \cup {Message(a, Undef) :
          a \in {Str(<<"g","e","t","C","o","n","t","e","n","t">>), Str(<<"g","e","t","P","a","g","e","C","o","n","t","e","n","t">>), Str(<<"C","l","i","p">>), Str(<<>>), Undef}}
MessageInputs ==
  {[op |-> "message", message |-> m, tabId |-> tab, tabReply |-> tr] :
      m \in Messages, tab \in {Undef, Num(0), Num(7)},
      tr \in {Ok(PageContent), Throw("Could not establish connection")}}

\* the texts handed to parseExpression and to parseFilterArgs: every text
\* over quotes, parentheses, the backslash, the separator, a letter, a space
ParseAlphabet == {"a", "|", "\"", "'", "(", ")", "\\", " "}
ArgsAlphabet == {"a", ",", "\"", "'", "(", ")", "\\", " "}
ParseInputs ==
  {[op |-> "parse", body |-> b] : b \in SeqsUpTo(ParseAlphabet, MaxBodyLen)}
\* argument texts with two parenthesized groups and with one pair around two
\* arguments
CuratedArgs ==
  {<<"(","a",")",",","(","b",")">>, <<"(","a",",","b",")">>,
   <<"(","(","a",")",",","b",")">>}
ArgsInputs ==
  {[op |-> "args", body |-> b] : b \in SeqsUpTo(ArgsAlphabet, MaxBodyLen) \cup CuratedArgs}

\* the names handed to resolve: a key with each namespace prefix and with
\* none, bare and between double quotes; the contexts: each side-channel map
\* absent, empty or holding the key, with or without top-level entries named
\* like the whole names
NsKeys == {<<"h">>, <<"q">>, <<"c","o","n","s","t","r","u","c","t","o","r">>}
NsPrefixes == {<<>>, <<"m","e","t","a",":">>, <<"s","e","l","e","c","t","o","r",":">>, <<"s","e","l","e","c","t","o","r","H","t","m","l",":">>, <<"s","c","h","e","m","a",":">>, <<"m","e","t","a",":","s","e","l","e","c","t","o","r",":">>}
NsNames ==
  {p \o k : p \in NsPrefixes, k \in NsKeys}
  \cup {<<"\"">> \o p \o k \o <<"\"">> : p \in NsPrefixes, k \in NsKeys}
NsMapStates == {"none", "empty", "full"}
NsTop ==
  << Entry(<<"h">>, Str(<<"P">>)), Entry(<<"m","e","t","a",":","h">>, Str(<<"T","M">>)),
     Entry(<<"s","e","l","e","c","t","o","r",":","h">>, Str(<<"T","S">>)), Entry(<<"s","e","l","e","c","t","o","r","H","t","m","l",":","h">>, Str(<<"T","H">>)),
     Entry(<<"s","c","h","e","m","a",":","h">>, Str(<<"T","C">>)), Entry(<<"\"","h","\"">>, Str(<<"T","Q">>)) >>
NsMap(state, key, full) ==
  CASE state = "none" -> <<>>
    [] state = "empty" -> <<Entry(key, Obj(<<>>))>>
    [] state = "full" -> <<Entry(key, full)>>
NsContext(top, m, s, sh, sc) ==
  Obj((IF top THEN NsTop ELSE <<>>)
      \o NsMap(m, <<"m","e","t","a","d","a","t","a">>, Obj(<<Entry(<<"h">>, Str(<<"M">>)), Entry(<<"s","e","l","e","c","t","o","r",":","h">>, Str(<<"M","S">>))>>))
      \o NsMap(s, <<"_","s","e","l","e","c","t","o","r","s">>, Obj(<<Entry(<<"h">>, Str(<<"S">>)), Entry(<<"q">>, Str(<<>>))>>))
      \o NsMap(sh, <<"_","s","e","l","e","c","t","o","r","s","H","t","m","l">>, Obj(<<Entry(<<"h">>, Str(<<"H">>))>>))
      \o NsMap(sc, <<"_","s","c","h","e","m","a">>, Obj(<<Entry(<<"A","r","t","i","c","l","e">>, Obj(<<Entry(<<"h">>, Str(<<"A">>))>>))>>)))
NsInputs ==
  {[op |-> "resolve", kind |-> "ns", name |-> n, variables |-> NsContext(top, m, s, sh, sc)] :
     n \in NsNames, top \in BOOLEAN, m \in NsMapStates, s \in NsMapStates,
     sh \in NsMapStates, sc \in NsMapStates}

\* paths whose segments carry an index or wildcard suffix, resolved against
\* a context with a list of a mapping, null and a number, a text, a mapping
\* that holds a list, and null
CtxIndex ==
  Obj(<< Entry(<<"l">>, Arr(<< Obj(<<Entry(<<"k">>, Str(<<"y">>)), Entry(<<"l">>, Arr(<<Num(7)>>))>>),
                          Null, Num(3) >>)),
         Entry(<<"a">>, Str(<<"s">>)),
         Entry(<<"o">>, Obj(<<Entry(<<"l">>, Arr(<<Str(<<"z">>)>>)), Entry(<<"k">>, Str(<<"w">>))>>)),
         Entry(<<"n">>, Null) >>)
IndexKeys == {<<"l">>, <<"a">>, <<"o">>, <<"n">>, <<"k">>, <<"q">>}
IndexSuffixes == {<<>>, <<"[","0","]">>, <<"[","1","]">>, <<"[","7","]">>, <<"[","*","]">>}
IndexSegs == {[key |-> k, suffix |-> x] : k \in IndexKeys, x \in IndexSuffixes}
IndexPathOf(segs) == JoinText([i \in DOMAIN segs |-> segs[i].key \o segs[i].suffix], <<".">>)
IndexInputs ==
  {[op |-> "resolve", kind |-> "index", name |-> IndexPathOf(segs), variables |-> CtxIndex,
    segs |-> segs] : segs \in SeqsUpTo(IndexSegs, MaxIndexPathLen) \ {<<>>}}

\* the texts handed to capitalize: lower and upper case letters, a space and
\* a digit in every position, up to MaxCaseLen characters
MaxCaseLen == 3
CaseAlphabet == {"a", "A", "z", "Z", " ", "1"}
CaseInputs ==
  {[op |-> "apply", name |-> <<"c","a","p","i","t","a","l","i","z","e">>, value |-> Str(t), args |-> <<>>] :
      t \in SeqsUpTo(CaseAlphabet, MaxCaseLen)}

\* the values and formats handed to the date filter: values that are no
\* date, three local date-times, one of them of the year 800; formats with
\* each token once, with a token twice, without a token
DateTexts == {<<"2","0","2","4","-","0","3","-","0","5","T","0","7",":","0","8",":","0","9">>, <<"0","8","0","0","-","1","2","-","3","1","T","2","3",":","5","9",":","0","0">>, <<"1","9","9","9","-","1","1","-","2","2","T","1","3",":","1","4",":","1","5">>}
DateValues ==
  {Null, Undef, EmptyStr, Str(<<"s","o","o","n">>), Bool(TRUE), Obj(<<>>)} \cup {Str(t) : t \in DateTexts}
DateFormats ==
  {<<>>, <<<<"Y","Y","Y","Y","-","M","M","-","D","D">>>>, <<<<"Y","Y","Y","Y","-","M","M","-","D","D"," ","H","H",":","m","m">>>>, <<<<"D","D","/","M","M","/","Y","Y","Y","Y"," ","H","H",":","m","m",":","s","s">>>>,
   <<<<"M","M"," ","M","M">>>>, <<<<"a","t">>>>, <<<<>>>>}
DateInputs ==
  {[op |-> "apply", name |-> <<"d","a","t","e">>, value |-> x, args |-> as] :
      x \in DateValues, as \in DateFormats}
\* the line of docs/TEMPLATE.md that puts default after date
DateContexts == {CtxEmpty} \cup {Obj(<<Entry(<<"p","u","b","l","i","s","h","e","d">>, x)>>) : x \in DateValues \ {Undef}}
DateRenderInputs ==
  {[op |-> "render", kind |-> "date",
    template |-> <<"{","{","p","u","b","l","i","s","h","e","d","|","d","a","t","e",":","\"","Y","Y","Y","Y","-","M","M","-","D","D","\"","|","d","e","f","a","u","l","t",":","\"","u","n","k","n","o","w","n","\"","}","}">>, context |-> c,
    var |-> <<"p","u","b","l","i","s","h","e","d">>, chain |-> <<>>, keys |-> <<>>] : c \in DateContexts}

\* the texts handed to safe_name: a letter, a space, a tab, two of the
\* characters a file name must not hold, up to MaxNameLen characters
MaxNameLen == 4
NameAlphabet == {"a", " ", "\t", ":", "*"}
NameInputs ==
  {[op |-> "apply", name |-> <<"s","a","f","e","_","n","a","m","e">>, value |-> Str(t), args |-> <<>>] :
      t \in SeqsUpTo(NameAlphabet, MaxNameLen)}

\* documents handed to the converter: up to MaxLists lists, bullet or
\* ordered, of up to MaxItems items each, written with or without line
\* breaks between the elements
MaxLists == 2
MaxItems == 2
ItemTexts == {<<"a">>, <<"b"," ","c">>}
HtmlLists ==
  {[ordered |-> o, items |-> its] :
     o \in BOOLEAN, its \in SeqsUpTo(ItemTexts, MaxItems) \ {<<>>}}
HtmlOfList(list, br) ==
  (IF list.ordered THEN <<"<","o","l",">">> ELSE <<"<","u","l",">">>) \o br
  \o Concat([i \in DOMAIN list.items |-> <<"<","l","i",">">> \o list.items[i] \o <<"<","/","l","i",">">> \o br])
  \o (IF list.ordered THEN <<"<","/","o","l",">">> ELSE <<"<","/","u","l",">">>) \o br
HtmlOf(lists, br) == Concat([i \in DOMAIN lists |-> HtmlOfList(lists[i], br)])
HtmlInputs ==
  {[op |-> "toMarkdown", html |-> Str(HtmlOf(lists, br)), lists |-> lists] :
     lists \in SeqsUpTo(HtmlLists, MaxLists) \ {<<>>}, br \in {<<>>, <<"\n">>}}

\* the popup opened over a browser window with or without an active tab,
\* whose content script answers or cannot be reached
PopupInputs ==
  {[op |-> "popup", activeTab |-> tab, tabReply |-> tr] :
      tab \in {Undef, Num(7)},
      tr \in {Ok(PageContent), Throw("Could not establish connection")}}
\* a quickClip request on a page, with the background reachable or not
QuickClipInputs ==
  {[op |-> "quickClip", doc |-> PageDoc, url |-> u, sendFails |-> f] :
      u \in ClipUrls \ {<<>>}, f \in BOOLEAN}
\* the messages of MessageInputs sent by another extension
ExternalInputs ==
  {[op |-> "external", message |-> m, tabId |-> tab, tabReply |-> tr] :
      m \in Messages, tab \in {Undef, Num(7)},
      tr \in {Ok(PageContent), Throw("Could not establish connection")}}

RegNames == {<<"r","e","v","e","r","s","e">>, <<"u","p","p","e","r">>}
RegFns == {"custom_reverse", "custom_bracket"}

(* ---------------------------------------------------------------------- *)
(* State machine: an engine, the calls made on it, the call under way      *)
(* ---------------------------------------------------------------------- *)
VARIABLES
  input,    \* the call about to be made, with its arguments
  pc,       \* "ready" before the call, "done" after it returned or threw
  result,   \* what the call returned or threw
  filters,  \* the filter table of the engine's FilterProcessor
  regLog,   \* the registerFilter calls made on the engine, in order
  currentContent,  \* the popup's currentContent
  tabMessages      \* the messages sent to content scripts, in order

vars == <<input, pc, result, filters, regLog, currentContent, tabMessages>>

NoResult == Ok(Undef)

Init ==
  /\ \/ input \in RenderInputs
     \/ input \in SchemaInputs
     \/ input \in PromptInputs
     \/ input \in MetaInputs
     \/ input \in ArrayInputs
     \/ input \in TextInputs
     \/ input \in PairInputs
     \/ input \in ApplyInputs
     \/ input \in ClipInputs
     \/ input \in MessageInputs
     \/ input \in ParseInputs
     \/ input \in ArgsInputs
     \/ input \in NsInputs
     \/ input \in IndexInputs
     \/ input \in CaseInputs
     \/ input \in DateInputs
     \/ input \in DateRenderInputs
     \/ input \in NameInputs
     \/ input \in HtmlInputs
     \/ input \in PopupInputs
     \/ input \in QuickClipInputs
     \/ input \in ExternalInputs
  /\ pc = "ready"
  /\ result = NoResult
  /\ filters = registerBuiltinFilters
  /\ regLog = <<>>
  /\ currentContent = Null
  /\ tabMessages = <<>>

\* engine.registerFilter(name, fn) as the API documentation calls it.
\* TemplateEngine declares no such method and keeps its FilterProcessor
\* private: the call raises a TypeError and the table is untouched.
registerFilter(name, fn) ==
  /\ pc = "ready"
  /\ input.op = "render"
  /\ Len(regLog) < MaxRegs
  /\ regLog' = Append(regLog, [name |-> name, fn |-> fn,
                               error |-> "engine.registerFilter is not a function"])
  /\ UNCHANGED <<input, pc, result, filters, currentContent, tabMessages>>

\* engine.render(template, variables)
Render ==
  /\ pc = "ready"
  /\ input.op = "render"
  /\ result' = render(filters, input.template, input.context)
  /\ pc' = "done"
  /\ UNCHANGED <<input, filters, regLog, currentContent, tabMessages>>

\* filterProcessor.apply(name, value, ...args)
Apply ==
  /\ pc = "ready"
  /\ input.op = "apply"
  /\ result' = apply(filters, input.name, input.value, input.args)
  /\ pc' = "done"
  /\ UNCHANGED <<input, filters, regLog, currentContent, tabMessages>>

\* clipper.clip(url, options)
Clip ==
  /\ pc = "ready"
  /\ input.op = "clip"
  /\ result' = clip(filters, input.url, input.options)
  /\ pc' = "done"
  /\ UNCHANGED <<input, filters, regLog, currentContent, tabMessages>>

\* a message delivered to the background listener
OnMessage ==
  /\ pc = "ready"
  /\ input.op = "message"
  /\ result' = onMessage(filters, input.message, input.tabId, input.tabReply)
  /\ tabMessages' = tabMessages \o Relayed(input.message, input.tabId)
  /\ pc' = "done"
  /\ UNCHANGED <<input, filters, regLog, currentContent>>

\* parseExpression(body), the first step of processExpression
ParseExpression ==
  /\ pc = "ready"
  /\ input.op = "parse"
  /\ result' = Ok(parseExpression(input.body))
  /\ pc' = "done"
  /\ UNCHANGED <<input, filters, regLog, currentContent, tabMessages>>

\* parseFilterArgs(argsString), the second step of parseFilter
ParseFilterArgs ==
  /\ pc = "ready"
  /\ input.op = "args"
  /\ result' = Ok(parseFilterArgs(input.body))
  /\ pc' = "done"
  /\ UNCHANGED <<input, filters, regLog, currentContent, tabMessages>>

\* VariableProcessor.resolve(name, variables)
Resolve ==
  /\ pc = "ready"
  /\ input.op = "resolve"
  /\ result' = resolve(Str(input.name), input.variables)
  /\ pc' = "done"
  /\ UNCHANGED <<input, filters, regLog, currentContent, tabMessages>>

\* clipper.toMarkdown(html)
ToMarkdown ==
  /\ pc = "ready"
  /\ input.op = "toMarkdown"
  /\ result' = toMarkdown(input.html)
  /\ pc' = "done"
  /\ UNCHANGED <<input, filters, regLog, currentContent, tabMessages>>

\* the popup's loadPageContent: getContent to the background, the response
\* stored
LoadPageContent ==
  /\ pc = "ready"
  /\ input.op = "popup"
  /\ result' = onMessage(filters, GetContentMessage, PopupSenderTab, input.tabReply)
  /\ tabMessages' = tabMessages \o Relayed(GetContentMessage, PopupSenderTab)
  /\ currentContent' = loadPageContent(filters, currentContent, input.tabReply)
  /\ pc' = "done"
  /\ UNCHANGED <<input, filters, regLog>>

\* the content script's quickClip
QuickClip ==
  /\ pc = "ready"
  /\ input.op = "quickClip"
  /\ result' = quickClip(filters, input.doc, input.url, input.sendFails)
  /\ pc' = "done"
  /\ UNCHANGED <<input, filters, regLog, currentContent, tabMessages>>

\* a message from another extension, answered by the onMessageExternal
\* listener
OnMessageExternal ==
  /\ pc = "ready"
  /\ input.op = "external"
  /\ result' = onMessageExternal(filters, input.message)
  /\ pc' = "done"
  /\ UNCHANGED <<input, filters, regLog, currentContent, tabMessages>>

Next ==
  \/ \E name \in RegNames, fn \in RegFns : registerFilter(name, fn)
  \/ Render
  \/ Apply
  \/ Clip
  \/ OnMessage
  \/ ParseExpression
  \/ ParseFilterArgs
  \/ Resolve
  \/ ToMarkdown
  \/ LoadPageContent
  \/ QuickClip
  \/ OnMessageExternal

Spec == Init /\ [][Next]_vars

(* ---------------------------------------------------------------------- *)
(* Claims                                                                  *)
(* ---------------------------------------------------------------------- *)
RenderDone == pc = "done" /\ input.op = "render"
ApplyDone == pc = "done" /\ input.op = "apply"
ClipDone == pc = "done" /\ input.op = "clip"

\* C1: with only the built-in filters registered, render returns a string
\* and never throws, whatever the placeholder bodies and filter arguments are.
C1_RenderNeverThrows ==
  RenderDone => ~result.thrown

\* C2: a filter written replace:"<s>":"<r>" hands s and r to the replace
\* filter, so the rendered text is the value with every s replaced by r
\* ({{a|replace:",":";"}} on a = "1,2,3" gives "1;2;3").
C2_QuotedArgsNotMisSplit ==
  (RenderDone /\ input.kind = "chain" /\ input.chain = <<ReplaceColonSeg>>)
    => result = Ok(Str(ReplaceAll(
                   ToStringJS(resolve(Str(input.var), input.context).val),
                   ReplaceColonSeg.args[1], ReplaceColonSeg.args[2])))

\* C3: after engine.registerFilter(name, fn), a later render of {{x|name}}
\* applies fn (the latest function registered under name) to the resolved value.
C3_RegisteredFilterApplied ==
  (RenderDone /\ input.kind = "chain" /\ regLog # <<>> /\ Len(input.chain) = 1
     /\ input.chain[1].text = regLog[Len(regLog)].name)
    => result = Ok(Str(stringify(
                   CallFilter(regLog[Len(regLog)].fn,
                              resolve(Str(input.var), input.context).val,
                              <<>>).val)))

\* C4: clip(url, options) with a non-empty url succeeds: success = true,
\* the filename derived from the title is non-empty.
C4_ClipOnUrlSucceeds ==
  (ClipDone /\ input.url # <<>>)
    => (result.success /\ result.filename # <<>>)

\* C5: clip never rejects; when a step throws, it resolves to success = false,
\* content = '', filename = '' and error = the thrown message; success = true
\* only when no step threw, and then error is absent.
C5_ClipNeverRejects ==
  ClipDone =>
    LET ex == extract([url |-> input.url, html |-> Undef])
    IN /\ ~result.rejected
       /\ ex.thrown => result = [rejected |-> FALSE, success |-> FALSE,
                                 content |-> <<>>, filename |-> <<>>,
                                 error |-> ex.err]
       /\ result.success => (result.error = Absent /\ ~ex.thrown)
       /\ ~result.success => (result.content = <<>> /\ result.filename = <<>>
                              /\ result.error # Absent)

C5_Witness ==
  /\ ClipDone
  /\ input.options # Undef
  /\ ~result.success
  /\ result.error = "URL extraction should be handled by content script"

\* a text has a {{...}} span: "{{" followed, somewhere later, by "}}"
HasSpan(t) ==
  \E i, j \in 1..(Len(t) - 1) :
    /\ t[i] = "{" /\ t[i + 1] = "{"
    /\ j >= i + 2
    /\ t[j] = "}" /\ t[j + 1] = "}"

\* C6: a template that contains no {{...}} span is returned unchanged by
\* render, whatever the context.
C6_NoPlaceholderIdentity ==
  (RenderDone /\ ~HasSpan(input.template))
    => result = Ok(Str(input.template))

C6_Witness ==
  /\ RenderDone
  /\ input.template = <<"{","{","a","}"," ">>
  /\ result = Ok(Str(<<"{","{","a","}"," ">>))

\* the value the claim C7 gives a dotted path: the nested own entry, the
\* empty string once a key is absent from the mapping being traversed or an
\* intermediate value is null or undefined
RECURSIVE ClaimedPathValue(_, _)
ClaimedPathValue(keys, current) ==
  IF keys = <<>> THEN current
  ELSE IF IsNullish(current) THEN EmptyStr
  ELSE IF current.t # "obj" \/ ~HasOwn(current.v, Head(keys)) THEN EmptyStr
  ELSE ClaimedPathValue(Tail(keys), OwnGet(current.v, Head(keys)))

\* C7: a dotted path k1.k2...kn resolves to context[k1][k2]...[kn] when every
\* key is present, and to the empty string as soon as a key is absent from
\* the mapping being traversed or an intermediate value is null/undefined.
C7_PathResolution ==
  (RenderDone /\ input.kind = "path")
    => result = Ok(Str(stringify(ClaimedPathValue(input.keys, input.context))))

\* fn(...f2(f1(value))) written from the outside in: the k-th filter of the
\* chain applied to the outcome of the first k - 1
RECURSIVE NestedApply(_, _, _, _)
NestedApply(fs, chain, k, value) ==
  IF k = 0 THEN Ok(value)
  ELSE LET inner == NestedApply(fs, chain, k - 1, value)
           call == parseFilter(chain[k].text)
       IN IF inner.thrown THEN inner
          ELSE apply(fs, call.name, inner.val, call.args)

\* C8: the filters of {{v|f1|f2|...|fn}} are applied left to right, each to
\* the previous filter's output, each exactly once: the rendered text is
\* stringify(fn(...f2(f1(resolve(v))))).
C8_ChainLeftToRight ==
  (RenderDone /\ input.kind = "chain")
    => LET nested == NestedApply(filters, input.chain, Len(input.chain),
                                 resolve(Str(input.var), input.context).val)
       IN result = IF nested.thrown THEN nested ELSE Ok(Str(stringify(nested.val)))

C8_Witness ==
  /\ RenderDone /\ input.kind = "chain"
  /\ input.var = <<"z">>
  /\ Len(input.chain) = 2
  /\ input.chain[1].text = <<"u","p","p","e","r">>
  /\ input.chain[2].text = <<"d","e","f","a","u","l","t",":","\"","d","\"">>
  /\ result = Ok(Str(<<"d">>))

\* C9: a filter name that is not in the registry leaves the value unchanged
\* and raises nothing, and the other filters of the chain are still applied:
\* the rendered text is that of the chain without the unknown filters.
C9_UnknownFilterNoOp ==
  /\ (ApplyDone /\ input.name \notin DOMAIN filters) => result = Ok(input.value)
  /\ (RenderDone /\ input.kind = "chain")
       => result = render(filters,
                          TemplateOf(input.var,
                                     SelectSeq(input.chain,
                                               LAMBDA s : s.name \in DOMAIN filters)),
                          input.context)

C9_Witness ==
  /\ RenderDone /\ input.kind = "chain"
  /\ input.var = <<"a">>
  /\ input.context = CtxZ
  /\ Len(input.chain) = 2
  /\ input.chain[1].text = <<"n","o","s","u","c","h","f","i","l","t","e","r">>
  /\ input.chain[2].text = <<"u","p","p","e","r">>
  /\ result = Ok(Str(<<"Z">>))

\* C10: the default filter returns its fallback argument exactly when the
\* incoming value is null, undefined or the empty string, and the incoming
\* value unchanged otherwise, in particular for 0 and false.
C10_DefaultFilter ==
  (ApplyDone /\ input.name = <<"d","e","f","a","u","l","t">>)
    => LET fallback == IF input.args = <<>> THEN <<>> ELSE input.args[1]
       IN /\ input.value \in {Null, Undef, EmptyStr} => result = Ok(Str(fallback))
          /\ input.value \notin {Null, Undef, EmptyStr} => result = Ok(input.value)

C10_Witness ==
  /\ ApplyDone
  /\ input.name = <<"d","e","f","a","u","l","t">>
  /\ input.args = <<<<"d">>>>
  /\ input.value = Num(0)
  /\ result = Ok(Num(0))

\* the property-path resolution of the specification, the empty string for
\* a missing or null result
ClaimedPath(keys, obj) == OrEmpty(ClaimedPathValue(keys, obj))

\* the first resolution of the path against the values, in order, that is
\* not the empty string
RECURSIVE ClaimedFirstMatch(_, _)
ClaimedFirstMatch(values, keys) ==
  IF values = <<>> THEN EmptyStr
  ELSE IF ClaimedPath(keys, Head(values)) # EmptyStr
       THEN ClaimedPath(keys, Head(values))
       ELSE ClaimedFirstMatch(Tail(values), keys)

\* the value the claim C11 gives a schema variable
ClaimedSchemaValue(typed, type, keys, context) ==
  IF ~HasOwn(context.v, <<"_","s","c","h","e","m","a">>) THEN EmptyStr
  ELSE LET schema == OwnGet(context.v, <<"_","s","c","h","e","m","a">>)
       IN IF typed
          THEN (IF HasOwn(schema.v, type)
                THEN ClaimedPath(keys, OwnGet(schema.v, type))
                ELSE EmptyStr)
          ELSE ClaimedFirstMatch(ObjectValues(schema), keys)

\* C11: schema:@Type:path resolves path against context._schema[Type] only,
\* the empty string when _schema has no such type; schema:path visits the
\* values of context._schema in order and gives the first resolution of the
\* path that is not the empty string, the empty string when there is none.
C11_SchemaResolution ==
  (RenderDone /\ input.kind = "schema")
    => result = Ok(Str(stringify(ClaimedSchemaValue(input.typed, input.var,
                                                    input.keys, input.context))))

\* the quote the scan of a body is inside after its first i characters
\* ("" outside quotes): an unescaped quote opens a quoted part, and the
\* same unescaped quote closes it
RECURSIVE QuoteAfter(_, _)
QuoteAfter(s, i) ==
  IF i = 0 THEN ""
  ELSE IF s[i] \in {"\"", "'"} /\ (i = 1 \/ s[i - 1] # "\\")
       THEN (IF QuoteAfter(s, i - 1) = "" THEN s[i]
             ELSE IF QuoteAfter(s, i - 1) = s[i] THEN ""
             ELSE QuoteAfter(s, i - 1))
       ELSE QuoteAfter(s, i - 1)

\* the parenthesis depth after the first i characters: parentheses outside
\* quotes, opened minus closed
DepthAfter(s, i) ==
  Cardinality({j \in 1..i : s[j] = "(" /\ QuoteAfter(s, j) = ""})
  - Cardinality({j \in 1..i : s[j] = ")" /\ QuoteAfter(s, j) = ""})

\* the separators at which a body is split
SplitPoints(s, sep) ==
  {i \in 1..Len(s) : /\ s[i] = sep
                     /\ QuoteAfter(s, i - 1) = ""
                     /\ DepthAfter(s, i - 1) = 0}

\* C12: a placeholder whose body begins and ends with a double quote and has
\* no filter is a prompt literal: render puts the identical text {{body}} in
\* its place, whatever the context holds.
C12_PromptLiteralKept ==
  (RenderDone /\ input.kind = "prompt" /\ SplitPoints(input.var, "|") = {})
    => result = Ok(Str(input.template))

C12_Witness ==
  /\ RenderDone /\ input.kind = "prompt"
  /\ input.var = <<"\"","a","\"">>
  /\ input.context = CtxPrompt
  /\ result = Ok(Str(<<"{","{","\"","a","\"","}","}">>))

\* the value the claim C13 gives {{meta:<type>:<tagName>}}: the entry of
\* context.metadata for the whole tag name, the empty string without one
ClaimedMetaValue(type, tagName, context) ==
  IF ~HasOwn(context.v, <<"m","e","t","a","d","a","t","a">>) THEN EmptyStr
  ELSE LET metadata == OwnGet(context.v, <<"m","e","t","a","d","a","t","a">>)
           key == <<"m","e","t","a","_">> \o type \o <<"_">> \o tagName
       IN IF HasOwn(metadata.v, key) THEN OrEmpty(OwnGet(metadata.v, key))
          ELSE EmptyStr

\* C13: {{meta:<type>:<tagName>}} with type name or property resolves to
\* context.metadata["meta_" + type + "_" + tagName] for the whole tag name
\* written after the type, a tag name with a colon (og:title) included.
C13_MetaWholeTagName ==
  (RenderDone /\ input.kind = "meta")
    => result = Ok(Str(stringify(ClaimedMetaValue(input.var, input.keys[1],
                                                  input.context))))

ArrayFilterNames == {<<"j","o","i","n">>, <<"f","i","r","s","t">>, <<"l","a","s","t">>, <<"u","n","i","q","u","e">>, <<"l","i","s","t">>}

\* C14: join, first, last, unique and list return an input that is not a
\* sequence unchanged; split always works on the text of its input (joining
\* its pieces with the separator gives that text back); on a sequence, join
\* puts exactly the given separator between the elements and first returns
\* element 0: {{l|join:", "}} on l = [1,2,3] renders "1, 2, 3" and
\* {{l|first}} on l = [1,2] renders "1".
C14_ArrayFilters ==
  /\ (ApplyDone /\ input.name \in ArrayFilterNames /\ input.value.t # "arr")
       => result = Ok(input.value)
  /\ (ApplyDone /\ input.name = <<"s","p","l","i","t">>)
       => /\ ~result.thrown /\ result.val.t = "arr"
          /\ \A i \in DOMAIN result.val.v : result.val.v[i].t = "str"
          /\ JoinText([i \in DOMAIN result.val.v |-> result.val.v[i].v],
                      ArgOr(input.args, 1, <<",">>)) = ToStringJS(input.value)
  /\ (ApplyDone /\ input.name = <<"j","o","i","n">> /\ input.value.t = "arr")
       => result = Ok(Str(JoinValues(input.value.v, ArgOr(input.args, 1, <<","," ">>))))
  /\ (ApplyDone /\ input.name = <<"f","i","r","s","t">> /\ input.value.t = "arr")
       => result = Ok(IF input.value.v = <<>> THEN Undef ELSE input.value.v[1])
  /\ (RenderDone /\ input.kind = "array" /\ input.chain[1].name = <<"j","o","i","n">>)
       => LET value == resolve(Str(input.var), input.context).val
          IN result = Ok(Str(IF value.t = "arr"
                             THEN JoinValues(value.v, ArgOr(input.chain[1].args, 1, <<","," ">>))
                             ELSE stringify(value)))
  /\ (RenderDone /\ input.kind = "array" /\ input.chain[1].name = <<"f","i","r","s","t">>)
       => LET value == resolve(Str(input.var), input.context).val
          IN result = Ok(Str(stringify(IF value.t = "arr" THEN value.v[1] ELSE value)))
  /\ (RenderDone /\ input.template = <<"{","{","l","|","j","o","i","n",":","\"",","," ","\"","}","}">> /\ input.context = CtxMain)
       => result = Ok(Str(<<"1",","," ","2",","," ","3">>))
  /\ (RenderDone /\ input.template = <<"{","{","l","|","f","i","r","s","t","}","}">> /\ input.context = CtxZ)
       => result = Ok(Str(<<"1">>))

C14_Witness ==
  /\ RenderDone /\ input.kind = "array"
  /\ input.template = <<"{","{","l","|","j","o","i","n",":","\""," ",","," ","\"","}","}">>
  /\ input.context = CtxZ
  /\ result = Ok(Str(<<"1"," ",","," ","2">>))

\* the text the rule of C15 gives a final value, the elements of a sequence
\* joined by sep
ClaimedText(value, sep) ==
  CASE IsNullish(value) -> <<>>
    [] value.t = "str" -> value.v
    [] value.t = "arr" -> JoinText([i \in DOMAIN value.v |-> ToStringJS(value.v[i])], sep)
    [] value.t = "obj" -> JsonText(value)
    [] value.t = "num" -> NumToText(value.v)
    [] value.t = "bool" -> (IF value.v THEN <<"t","r","u","e">> ELSE <<"f","a","l","s","e">>)

\* the final value of the placeholder of a "text" render: the variable
\* resolved, then the filters applied
FinalValue == ApplyFilters(filters, [i \in DOMAIN input.chain |-> input.chain[i].text],
                           resolve(Str(input.var), input.context))

\* the rule of C15 with sep between the elements of a sequence
StringifyRule(sep) ==
  (RenderDone /\ input.kind = "text" /\ ~FinalValue.thrown)
    => result = Ok(Str(input.prefix \o ClaimedText(FinalValue.val, sep) \o input.suffix))

\* C15 as stated: the final value of a placeholder becomes '' for null and
\* undefined, itself for a string, its elements joined by commas for a
\* sequence, its serialized form for a mapping and its textual form for
\* another scalar; that text replaces the {{...}} span and the text around
\* the span is unchanged.
C15_StringifyCommaJoined == StringifyRule(<<",">>)

\* C15 amended: as above, with a sequence emitted as its elements joined by
\* a comma followed by a space.
C15_StringifyRule ==
  /\ StringifyRule(<<","," ">>)
  /\ (RenderDone /\ input.template = <<"x"," ","{","{","o","}","}"," ","y">> /\ input.context = CtxMain)
       => result = Ok(Str(<<"x"," ","{","\"","k","\"",":","\"","y","\"",",","\"","n","\"",":","n","u","l","l",",","\"","e","\"",":","{","}","}"," ","y">>))

C15_Witness ==
  /\ RenderDone /\ input.kind = "text"
  /\ input.template = <<"x"," ","{","{","a","|","s","p","l","i","t","}","}","}">>
  /\ input.context = CtxMain
  /\ result = Ok(Str(<<"x"," ","1",","," ","2",","," ","3","}">>))

\* the text one placeholder body gives on its own with the context
BodyOutput(body, context) == processExpression(filters, Trim(body), context)

\* C16: placeholders are rendered independently in one pass: the output of
\* {{b1}}sep{{b2}} is the output of b1, sep, and the output of b2, each
\* output depending only on its body and the context; a value that holds
\* {{x}} is put in the output as it is and not expanded.
C16_SinglePassIndependent ==
  /\ (RenderDone /\ input.kind = "pair")
       => LET first == BodyOutput(input.bodies[1], input.context)
              second == BodyOutput(input.bodies[2], input.context)
          IN result = IF first.thrown THEN first
                      ELSE IF second.thrown THEN second
                      ELSE Ok(Str(first.val.v \o input.sep \o second.val.v))
  /\ (RenderDone /\ input.template = <<"{","{","a","}","}","{","{","b","}","}">> /\ input.context = CtxNest)
       => result = Ok(Str(<<"{","{","b","}","}","B">>))

C16_Witness ==
  /\ RenderDone /\ input.kind = "pair"
  /\ input.template = <<"{","{","c","}","}","b","}","}","{","{","a","|","u","p","p","e","r","}","}">>
  /\ input.context = CtxNest
  /\ result = Ok(Str(<<"{","{","b","}","}","{","{","B","}","}">>))

MessageDone == pc = "done" /\ input.op = "message"

KnownActions ==
  {Str(<<"c","l","i","p">>), Str(<<"e","x","t","r","a","c","t">>), Str(<<"t","o","M","a","r","k","d","o","w","n">>), Str(<<"r","e","n","d","e","r">>), Str(<<"g","e","t","C","o","n","t","e","n","t">>)}

\* the answer the claim C17 gives an exception with the message msg
FailureResponse(msg) ==
  [rejected |-> FALSE, success |-> FALSE, data |-> NoData, error |-> ErrorOf(msg)]

\* C17: the background listener answers every message with a
\* MessageResponse and never rejects: clip, extract, toMarkdown, render and
\* getContent reach their handler, any other action is answered
\* {success: false, error: "Unknown action: <action>"}, and an exception a
\* handler throws becomes {success: false, error: <message>}.
C17_ListenerAlwaysAnswers ==
  MessageDone =>
    LET m == input.message
    IN /\ ~result.rejected
       /\ result.success \in BOOLEAN
       /\ ~result.success => result.error # NoError
       /\ (~m.nullish /\ m.action \notin KnownActions)
            => result = [rejected |-> FALSE, success |-> FALSE, data |-> NoData,
                         error |-> [text |-> "Unknown action: ",
                                    arg |-> IF m.action = Undef THEN <<"u","n","d","e","f","i","n","e","d">>
                                            ELSE m.action.v]]
       /\ (~m.nullish /\ m.action = Str(<<"c","l","i","p">>) /\ m.data # Undef)
            => /\ result.data = Data("clipResult", clip(filters, m.data.url, m.data.options))
               /\ result.success = result.data.v.success
       /\ (~m.nullish /\ m.action = Str(<<"e","x","t","r","a","c","t">>) /\ m.data # Undef)
            => IF m.data.html # Undef
               THEN result.success /\ result.data.t = "content"
               ELSE result = FailureResponse(extract([html |-> Undef, url |-> m.data.url]).err)
       /\ (~m.nullish /\ m.action = Str(<<"t","o","M","a","r","k","d","o","w","n">>) /\ m.data # Undef)
            => IF m.data.html = Undef
               THEN result = FailureResponse("Cannot read properties of undefined (reading 'replace')")
               ELSE result.success /\ result.data.t = "text"
       /\ (~m.nullish /\ m.action = Str(<<"r","e","n","d","e","r">>) /\ m.data # Undef
             /\ m.data.template # Undef)
            => LET r == render(filters, m.data.template.v, m.data.variables)
               IN IF r.thrown THEN result = FailureResponse(r.err)
                  ELSE result.success /\ result.data = Data("text", r.val)
       /\ (~m.nullish /\ m.action = Str(<<"g","e","t","C","o","n","t","e","n","t">>))
            => IF input.tabId = Num(7)
               THEN (IF input.tabReply.thrown
                     THEN result = FailureResponse(input.tabReply.err)
                     ELSE result.success /\ result.data = Data("content", input.tabReply.val))
               ELSE result = FailureResponse("No active tab")
       /\ (m.nullish \/ (m.action \in KnownActions \ {Str(<<"g","e","t","C","o","n","t","e","n","t">>)} /\ m.data = Undef))
            => (~result.success /\ result.data = NoData)

C17_Witness ==
  /\ MessageDone
  /\ input.message = Message(Str(<<"r","e","n","d","e","r">>), [template |-> Str(<<"{","{","|","}","}">>), variables |-> CtxMain])
  /\ result = FailureResponse("Cannot read properties of undefined (reading 'startsWith')")

ParseDone == pc = "done" /\ input.op = "parse"
ArgsDone == pc = "done" /\ input.op = "args"

\* the pieces of s between the positions of P, from position i on, the
\* current piece having started at start
RECURSIVE PiecesFrom(_, _, _, _)
PiecesFrom(s, i, start, P) ==
  IF i > Len(s) THEN <<SubSeq(s, start, Len(s))>>
  ELSE IF i \in P THEN <<SubSeq(s, start, i - 1)>> \o PiecesFrom(s, i + 1, i + 1, P)
  ELSE PiecesFrom(s, i + 1, start, P)

\* the pieces of s cut at its split points, each trimmed
TrimmedPieces(s, sep) ==
  [i \in DOMAIN PiecesFrom(s, 1, 1, SplitPoints(s, sep)) |->
     Trim(PiecesFrom(s, 1, 1, SplitPoints(s, sep))[i])]

\* the segments the claim C18 gives a body: the trimmed pieces that are not
\* empty
ClaimedSegments(s, sep) == SelectSeq(TrimmedPieces(s, sep), LAMBDA seg : seg # <<>>)

\* C18: parseExpression splits a body at a pipe exactly when the scan is
\* outside quotes and the parenthesis depth is zero there; a pipe inside
\* quotes or parentheses stays in its segment, a quote after a backslash
\* does not open or close a quoted part; every segment is trimmed and not
\* empty, consecutive pipes giving no segment.
C18_SplitOutsideQuotesAndParens ==
  ParseDone =>
    /\ result = Ok(ClaimedSegments(input.body, "|"))
    /\ \A i \in DOMAIN result.val :
         result.val[i] # <<>> /\ result.val[i] = Trim(result.val[i])

C18_Witness ==
  /\ ParseDone
  /\ input.body = <<"\\","\"","|","'">>
  /\ result = Ok(<<<<"\\","\"">>, <<"'">>>>)

\* C19: every parse gives a variable path and a filter chain: the variable
\* path is a text, the (trimmed) text before the first split pipe, the empty
\* text for a body that is empty or starts with a pipe; the segments after
\* that pipe are the filters ({{ |upper}}: path "", filter upper).
C19_VariablePathAlwaysPresent ==
  ParseDone =>
    /\ VariableNameOf(result.val) = Str(TrimmedPieces(input.body, "|")[1])
    /\ FilterChainOf(result.val)
         = SelectSeq(Tail(TrimmedPieces(input.body, "|")), LAMBDA seg : seg # <<>>)

\* a text with an unclosed quote or unbalanced parentheses
Malformed(s) == QuoteAfter(s, Len(s)) # "" \/ DepthAfter(s, Len(s)) # 0

\* the characters of a text that are not whitespace, in order
NonSpace(s) == SelectSeq(s, LAMBDA c : ~IsSpace(c))

\* the non-whitespace characters of s at positions outside P
NonSpaceOutside(s, P) ==
  NonSpace(Concat([i \in DOMAIN s |-> IF i \in P THEN <<>> ELSE <<s[i]>>]))

\* an argument text without its pair of parentheses around the whole
Unwrapped(s) ==
  IF Len(s) >= 2 /\ s[1] = "(" /\ s[Len(s)] = ")" THEN SubSeq(s, 2, Len(s) - 1)
  ELSE s

\* an argument without its pair of like quotes around it
Unquoted(seg) ==
  IF seg # <<>> /\ seg[1] \in {"\"", "'"} /\ seg[Len(seg)] = seg[1]
  THEN SubSeq(seg, 2, Len(seg) - 1)
  ELSE seg

\* parseExpression on a malformed body ends without raising and keeps every
\* non-whitespace character but the split pipes, the text accumulated at the
\* end being the last segment
LenientExpression ==
  (ParseDone /\ Malformed(input.body))
    => /\ ~result.thrown
       /\ NonSpace(Concat(result.val))
            = NonSpaceOutside(input.body, SplitPoints(input.body, "|"))
       /\ LET pieces == TrimmedPieces(input.body, "|")
          IN pieces[Len(pieces)] # <<>>
               => (result.val # <<>> /\ result.val[Len(result.val)] = pieces[Len(pieces)])

\* C20 as stated: on a body with an unclosed quote or unbalanced
\* parentheses, parseExpression and parseFilterArgs end without raising and
\* emit the text accumulated at the end as the final segment or argument, so
\* that no non-whitespace character other than the split separators is lost.
C20_NothingLostOnMalformed ==
  /\ LenientExpression
  /\ (ArgsDone /\ Malformed(input.body))
       => /\ ~result.thrown
          /\ NonSpace(Concat(result.val))
               = NonSpaceOutside(input.body, SplitPoints(input.body, ","))

\* C20 amended: as above for parseExpression; parseFilterArgs also ends
\* without raising and emits the final argument, and loses, besides the
\* split commas, only a pair of parentheses around the whole argument text
\* and a pair of like quotes around an argument.
C20_LenientParsing ==
  /\ LenientExpression
  /\ (ArgsDone /\ Malformed(input.body))
       => LET segments == ClaimedSegments(Unwrapped(input.body), ",")
          IN result = Ok([i \in DOMAIN segments |-> Unquoted(segments[i])])

C20_Witness ==
  /\ ArgsDone
  /\ input.body = <<"'","a",",","(">>
  /\ result = Ok(<<<<"'","a",",","(">>>>)

\* an argument text wrapped in a single matching pair of parentheses: its
\* leading ( is outside quotes and is closed by its last character
SinglyWrapped(s) ==
  /\ Len(s) >= 2
  /\ s[1] = "(" /\ s[Len(s)] = ")"
  /\ QuoteAfter(s, Len(s)) = ""
  /\ DepthAfter(s, Len(s)) = 0
  /\ \A i \in 1..(Len(s) - 1) : DepthAfter(s, i) >= 1

\* the argument text parseFilterArgs is to split: without its parentheses
\* only when they are one matching pair
ClaimedArgsText(s) == IF SinglyWrapped(s) THEN SubSeq(s, 2, Len(s) - 1) ELSE s

\* C21: parseFilterArgs strips the outer parentheses of the raw argument
\* text only when the text is wrapped in a single matching pair, the leading
\* ( being closed by the trailing ); a text that starts with ( and ends with
\* ) of different groups keeps its parentheses and is split at its top-level
\* commas ((a),(b) gives the two arguments (a) and (b)). Stated for texts
\* whose quotes are closed and whose parentheses are balanced.
C21_StripsOnlyMatchingPair ==
  (ArgsDone /\ ~Malformed(input.body)) =>
    LET segments == ClaimedSegments(ClaimedArgsText(input.body), ",")
    IN result = Ok([i \in DOMAIN segments |-> Unquoted(segments[i])])

ResolveDone == pc = "done" /\ input.op = "resolve"

\* the entry of a side-channel map of the context under a key, the empty
\* string when the context has no such map or the map no such entry
ClaimedEntry(variables, map, key) ==
  IF HasOwn(variables.v, map) /\ HasOwn(OwnGet(variables.v, map).v, key)
  THEN OrEmpty(OwnGet(OwnGet(variables.v, map).v, key))
  ELSE EmptyStr

\* the value the claim C22 gives a name: the first rule that matches it
ClaimedResolved(name, variables) ==
  IF Len(name) >= 2 /\ name[1] = "\"" /\ name[Len(name)] = "\""
    THEN Str(<<"{","{">> \o name \o <<"}","}">>)
  ELSE IF StartsWith(name, <<"m","e","t","a",":">>)
    THEN ClaimedEntry(variables, <<"m","e","t","a","d","a","t","a">>, SliceFrom(name, 5))
  ELSE IF StartsWith(name, <<"s","e","l","e","c","t","o","r",":">>)
    THEN ClaimedEntry(variables, <<"_","s","e","l","e","c","t","o","r","s">>, SliceFrom(name, 9))
  ELSE IF StartsWith(name, <<"s","e","l","e","c","t","o","r","H","t","m","l",":">>)
    THEN ClaimedEntry(variables, <<"_","s","e","l","e","c","t","o","r","s","H","t","m","l">>, SliceFrom(name, 13))
  ELSE IF StartsWith(name, <<"s","c","h","e","m","a",":">>)
    THEN ClaimedSchemaValue(FALSE, <<>>, <<SliceFrom(name, 7)>>, variables)
  ELSE ClaimedPath(<<name>>, variables)

\* C22: resolve dispatches on the first matching rule of the fixed order
\* prompt literal, meta:, selector:, selectorHtml:, schema:, plain property
\* path; a name with a namespace prefix is looked up only in its side-channel
\* map (metadata, _selectors, _selectorsHtml, _schema), never as a top-level
\* context key, and a missing map or a missing entry yields the empty string.
C22_NamespaceDispatch ==
  (ResolveDone /\ input.kind = "ns") => result = Ok(ClaimedResolved(input.name, input.variables))

\* the value the claim C23 gives a path of segments key, key[N], key[*]
RECURSIVE ClaimedSteps(_, _)
ClaimedSteps(segs, current) ==
  IF segs = <<>> THEN OrEmpty(current)
  ELSE IF IsNullish(current) THEN EmptyStr
  ELSE LET v == IF current.t = "obj" /\ HasOwn(current.v, Head(segs).key)
                THEN OwnGet(current.v, Head(segs).key) ELSE Undef
           x == Head(segs).suffix
           N == ParseInt(SubSeq(x, 2, Len(x) - 1))
       IN IF x = <<>> \/ v.t # "arr" THEN ClaimedSteps(Tail(segs), v)
          ELSE IF x = <<"[","*","]">> THEN v
          ELSE ClaimedSteps(Tail(segs), IF N + 1 \in DOMAIN v.v THEN v.v[N + 1] ELSE Undef)

\* C23: for a path segment key[N] or key[*], resolveProperty first resolves
\* key; if that value is a sequence, [N] continues the traversal with
\* element N (the empty string when N is out of range, whether the path ends
\* or continues) and [*] returns the whole sequence at once, ignoring the
\* remaining segments; if the value is not a sequence the suffix is ignored
\* and the traversal continues with the value itself.
C23_IndexAndWildcard ==
  (ResolveDone /\ input.kind = "index")
    => result = Ok(ClaimedSteps(input.segs, input.variables))

C23_Witness ==
  /\ ResolveDone
  /\ input.name = <<"l","[","*","]",".","k">>
  /\ result = Ok(OwnGet(CtxIndex.v, <<"l">>))

CapitalizeDone == ApplyDone /\ input.name = <<"c","a","p","i","t","a","l","i","z","e">> /\ input.value.t = "str"

\* C24 as stated: capitalize affects only the first character: the result is
\* the input text with its first character in upper case and every other
\* character exactly as it was.
C24_CapitalizeFirstOnly ==
  CapitalizeDone =>
    /\ ~result.thrown /\ result.val.t = "str"
    /\ Len(result.val.v) = Len(input.value.v)
    /\ \A i \in DOMAIN input.value.v :
         result.val.v[i] = IF i = 1 THEN ToUpperChar(input.value.v[i])
                           ELSE input.value.v[i]

\* C24 amended: the result of capitalize is the input text with its first
\* character in upper case and every other character in lower case.
C24_CapitalizeLowersRest ==
  CapitalizeDone =>
    /\ ~result.thrown /\ result.val.t = "str"
    /\ Len(result.val.v) = Len(input.value.v)
    /\ \A i \in DOMAIN input.value.v :
         result.val.v[i] = IF i = 1 THEN ToUpperChar(input.value.v[i])
                           ELSE ToLowerChar(input.value.v[i])

C24_Witness ==
  /\ CapitalizeDone
  /\ input.value = Str(<<"a","Z","A">>)
  /\ result = Ok(Str(<<"A","z","a">>))

DateDone == ApplyDone /\ input.name = <<"d","a","t","e">>

\* n as decimal digits, with zeros in front up to the given width
RECURSIVE ZeroPadded(_, _)
ZeroPadded(n, width) ==
  IF Len(NumToText(n)) >= width THEN NumToText(n)
  ELSE <<"0">> \o SubSeq(ZeroPadded(n, width - 1), 1, width - 1)

\* the zero-padded field a token of a date format stands for
TokenField(token, date) ==
  CASE token = <<"Y","Y","Y","Y">> -> ZeroPadded(date.year, 4)
    [] token = <<"M","M">> -> ZeroPadded(date.month, 2)
    [] token = <<"D","D">> -> ZeroPadded(date.day, 2)
    [] token = <<"H","H">> -> ZeroPadded(date.hours, 2)
    [] token = <<"m","m">> -> ZeroPadded(date.minutes, 2)
    [] token = <<"s","s">> -> ZeroPadded(date.seconds, 2)

DateTokens == {<<"Y","Y","Y","Y">>, <<"M","M">>, <<"D","D">>, <<"H","H">>, <<"m","m">>, <<"s","s">>}

TokenAt(format, i, tok) ==
  i + Len(tok) - 1 <= Len(format) /\ SubSeq(format, i, i + Len(tok) - 1) = tok

\* the format with its tokens replaced by their fields, from position i on
RECURSIVE ClaimedFormat(_, _, _)
ClaimedFormat(format, i, date) ==
  IF i > Len(format) THEN <<>>
  ELSE IF \E tok \in DateTokens : TokenAt(format, i, tok)
  THEN LET tok == CHOOSE tok \in DateTokens : TokenAt(format, i, tok)
       IN TokenField(tok, date) \o ClaimedFormat(format, i + Len(tok), date)
  ELSE <<format[i]>> \o ClaimedFormat(format, i + 1, date)

\* the fields of the model's date values, read off the text
DateRead(x) == x.t = "str" /\ x.v \in DateTexts

\* the date filter returns a value that is no date as it is
DateKeepsUnparsable ==
  /\ (DateDone /\ ~DateRead(input.value)) => result = Ok(input.value)
  /\ (RenderDone /\ input.kind = "date"
        /\ (input.context = CtxEmpty \/ IsNullish(input.context.v[1].v)
              \/ input.context.v[1].v = EmptyStr))
       => result = Ok(Str(<<"u","n","k","n","o","w","n">>))

\* C25: when its input does not parse as a date, the date filter returns the
\* original value itself (same value and type) and raises nothing, so that a
\* following default filter still sees an empty or absent value as empty;
\* for a value that parses, the result is the format string with the tokens
\* YYYY, MM, DD, HH, mm, ss replaced by the zero-padded fields.
C25_DateFilter ==
  /\ DateKeepsUnparsable
  /\ (DateDone /\ DateRead(input.value))
       => result = Ok(Str(ClaimedFormat(ArgOr(input.args, 1, <<"Y","Y","Y","Y","-","M","M","-","D","D">>), 1,
                                        DateFields(input.value.v))))

SafeNameDone == ApplyDone /\ input.name = <<"s","a","f","e","_","n","a","m","e">>

\* C26: for every input string the result of safe_name holds none of the
\* characters < > : " / \ | ? *, has no whitespace at its start or end and
\* no two whitespace characters in a row, and safe_name is idempotent:
\* safe_name(safe_name(x)) = safe_name(x).
C26_SafeName ==
  SafeNameDone =>
    /\ ~result.thrown /\ result.val.t = "str"
    /\ \A i \in DOMAIN result.val.v :
         result.val.v[i] \notin {"<", ">", ":", "\"", "/", "\\", "|", "?", "*"}
    /\ result.val.v # <<>>
         => ~IsSpace(result.val.v[1]) /\ ~IsSpace(result.val.v[Len(result.val.v)])
    /\ \A i \in 1..(Len(result.val.v) - 1) :
         ~(IsSpace(result.val.v[i]) /\ IsSpace(result.val.v[i + 1]))
    /\ apply(filters, input.name, result.val, <<>>) = result

C26_Witness ==
  /\ SafeNameDone
  /\ input.value = Str(<<":", "a", "\t", " ">>)
  /\ apply(filters, input.name, Str(<<"a", "\t", " ", "a">>), <<>>) = Ok(Str(<<"a", " ", "a">>))
  /\ result = Ok(Str(<<"a">>))

ToMarkdownDone == pc = "done" /\ input.op = "toMarkdown"

\* the lines the claim C27 gives a list: "N. text" for the N-th item of an
\* ordered list, "- text" for an item of a bullet list
ClaimedListLines(list) ==
  [i \in DOMAIN list.items |->
     (IF list.ordered THEN NumToText(i) \o <<"."," ">> ELSE <<"-"," ">>) \o list.items[i]]

\* the lines of a text that are not empty
LinesOf(text) == SelectSeq(SplitText(text, <<"\n">>), LAMBDA line : line # <<>>)

\* C27: MarkdownConverter.convert turns every <li> of an <ol> into a line
\* "N. <item text>", the item text being the content of that list item and N
\* counting 1, 2, 3, ... from 1 again for each ordered list, as every <li>
\* of a <ul> becomes "- <item text>".
C27_OrderedListItems ==
  ToMarkdownDone =>
    /\ ~result.thrown
    /\ LinesOf(result.val.v)
         = Concat([i \in DOMAIN input.lists |-> ClaimedListLines(input.lists[i])])

PopupDone == pc = "done" /\ input.op = "popup"

\* C28: when the popup sends getContent, the background relays
\* getPageContent to the content script of the active tab, and the popup
\* receives {success: true, data: <extracted content>} and stores it as
\* currentContent; the background answers {success: false, error: 'No
\* active tab'} only when there is no tab to ask, and then sends nothing to
\* a content script.
C28_PopupGetsActiveTabContent ==
  PopupDone =>
    /\ input.activeTab # Undef
         => /\ tabMessages = <<[tabId |-> input.activeTab, action |-> <<"g","e","t","P","a","g","e","C","o","n","t","e","n","t">>]>>
            /\ ~input.tabReply.thrown
                 => /\ result.success
                    /\ result.data = Data("content", input.tabReply.val)
                    /\ currentContent = input.tabReply.val
    /\ result = FailureResponse("No active tab")
         => (input.activeTab = Undef /\ tabMessages = <<>>)

QuickClipDone == pc = "done" /\ input.op = "quickClip"

\* the background's answer to the clip message quickClip sends
QuickClipResponse ==
  onMessage(filters, [nullish |-> FALSE, action |-> Str(<<"c","l","i","p">>),
                      data |-> [url |-> input.url, options |-> Undef]],
            ContentSenderTab, Throw("not asked"))

\* C29: quickClip in the content script reports {success: true} only if the
\* clip message it sends to the background was processed successfully: when
\* the background's clip response has success = false, or sending fails,
\* quickClip does not report success.
C29_QuickClipReportsOutcome ==
  (QuickClipDone /\ result = Ok(Obj(<<Entry(<<"s","u","c","c","e","s","s">>, Bool(TRUE))>>)))
    => (~input.sendFails /\ QuickClipResponse.success)

ExternalDone == pc = "done" /\ input.op = "external"

\* C30: a message received from another extension (onMessageExternal) is
\* processed the same as an internal message: for every action the response
\* returned to the external sender equals the MessageResponse the internal
\* onMessage listener returns for the same message.
C30_ExternalSameAsInternal ==
  ExternalDone
    => result = onMessage(filters, input.message, input.tabId, input.tabReply)

====
